---- MODULE Spec2Model ----
(***************************************************************************)
(* A model of the operational scripts of tts-voice-cloning-jetson: the     *)
(* Data Validator, the Training Launchers, the Inference Drivers, the      *)
(* Training Monitor and the Metadata Converters.  Every component is a     *)
(* separately invoked script, so every component has its own               *)
(* specification (SpecValidator, SpecLauncher, ...) over its own           *)
(* variables; the variables of the other components stay at their idle     *)
(* values.                                                                 *)
(***************************************************************************)
EXTENDS Integers, Sequences, FiniteSets, TLC

VARIABLES
    \* ---- Data Validator (scripts/tools/validate_data.py)
    df_len,          \* len(df): metadata rows
    audio_files_len, \* len(list(Path(audio_dir).glob("*.wav")))
    dup_len,         \* len(df[df.duplicated('transcript', keep=False)])
    issues,          \* the list `issues`
    warnings,        \* the list `warnings`
    printed,         \* what the validator printed (good volume, verdict)
    ready,           \* the value validate_training_readiness returned
    vpc,             \* "start" | "done"
    \* ---- Training Launchers (scripts/training/*.py)
    script,          \* the launcher script that was invoked
    lpc,             \* the launcher's position
    child,           \* the trainer child: "none" | "running" | "sigterm" | "exited"
    returncode,      \* the child's exit code once it has exited
    emitted,         \* how many lines the child has written to its stdout
    pipe,            \* lines written by the child and not yet read by the launcher
    log,             \* the lines of the launcher's log file
    success,         \* what the launcher function returned: "unset" | "True" | "False"
    exit_status,     \* the script's exit status, -1 while it runs
    interrupted,     \* a KeyboardInterrupt has been delivered to the launcher
    spawned,         \* the commands this invocation started, in order
    pkilled,         \* this invocation ran `pkill -f tensorboard`
    \* ---- Inference Drivers (scripts/test_model.py, test_model_mac.py, batch_synthesis_mac.py)
    driver,          \* the multi-text synthesis function that runs
    texts,           \* how many texts it was given
    idx,             \* the 1-based index of the next text
    attempted,       \* the indices whose synthesis was attempted
    saved,           \* the indices whose audio file was saved
    logged,          \* the indices whose failure was printed
    sessions,        \* how many synthesis sessions were constructed
    spc,             \* "start" | "loop" | "done" | "raised"
    sresult,         \* what the function returned: "unset" | "True" | "False"
    sexit,           \* the exit status of the driver's script, -1 while it runs
    \* ---- Training Monitor: parse_training_metrics (scripts/training/monitor_training.py)
    log_content,     \* the argument: the log text, a sequence of characters
    metrics,         \* the dict `metrics`: key -> text
    ppc,             \* "start" | "done" | "raised"
    \* ---- Training Monitor: monitor_training (scripts/training/monitor_training.py)
    trainer,         \* the training process: "absent" | "running" | "exited"
    files,           \* the log files under /ssd/tts_project: name -> [mtime, content]
    writes,          \* how many times a log file has been written
    mpc,             \* "loop" | "stopped" (after Ctrl+C) | "crashed" (an exception left the loop)
    minterrupted,    \* the operator pressed Ctrl+C
    refreshes,       \* completed refreshes
    shown,           \* what the last refresh put on the screen
    \* ---- Metadata Converter (scripts/tools/create_metadata.py, scripts/fix_metadata.py)
    entries,         \* training.json: training_data, a list of [filename, text]
    audio_dir,       \* the names of the files in voice_data/raw_audio
    metadata_csv,    \* voice_data/metadata.csv: [exists, content]
    ljspeech_csv,    \* voice_data/metadata_ljspeech.csv: [exists, content]
    create_runs,     \* completed runs of create_metadata_from_json
    fix_runs,        \* completed runs of fix_metadata.main
    fix_seen,        \* metadata.csv as the last run of fix_metadata.main found it
    rows,            \* the last run of fix_metadata.main: per converted line, its filename and the row written
    unmatched,       \* the last run of create_metadata_from_json: the audio files it warned about
    \* ---- Audio Preprocessor: process_audio_files (scripts/process_audio.py)
    raw_files,       \* sorted(raw_audio_dir.glob("*.wav")): per file its waveform, sample rate and fault
    processed,       \* processed_audio: index of the file -> [sr, samples] as written (16-bit PCM)
    completed,       \* the files whose try block ran to its end
    errors,          \* the files for which the handler printed an error
    ai,              \* the files the loop has handled
    apc,             \* "idle" | "loop" | "done" | "raised"
    \* ---- The data preparation pipeline: fix_metadata.main, validate_data.main, process_audio_files
    pl_entries,      \* the filename|text lines of metadata.csv, each naming a file of raw_audio
    pl_raw,          \* the .wav files of voice_data/raw_audio
    pl_processed,    \* voice_data/processed_audio: [exists, count]
    pl_rows,         \* metadata_ljspeech.csv: [exists, count]
    pl_verdict,      \* what validate_data.main returned: "unset" | "ready" | "not ready"
    pl_order,        \* the tools run so far, in order
    \* ---- Config Builder: the create_*_config functions
    cb_dirs,         \* the directories that exist
    cb_files,        \* the configuration files: path -> the JSON tokens written
    cb_last,         \* the builder that ran last, "none" before the first
    cb_ret,          \* how it ended: "none" | "returned" | "raised"
    cb_runs,         \* builder runs so far
    \* ---- Data splits: create_data_splits
    sp_n,            \* the number of rows of metadata.csv
    sp_state,        \* the state of the global random generator
    sp_train,        \* metadata_train.csv: the rows, by their number in metadata.csv
    sp_val,          \* metadata_val.csv
    sp_prev,         \* the two splits the previous run wrote, <<>> before it
    sp_runs,         \* runs so far
    sp_pc,           \* "ready" | "done" | "raised"
    \* ---- Interactive Inference Drivers
    iv_driver,       \* the driver that runs
    iv_pc,           \* "start" | "loop" | "done" | "died"
    iv_sessions,     \* synthesis sessions constructed so far
    iv_loaded,       \* whether `tts` / `self.synthesizer` holds a session
    counter,         \* the loop's `counter`
    iv_inputs,       \* inputs read so far
    iv_files,        \* the audio files: name -> number of the input that wrote it
    iv_reported,     \* the "Audio saved" reports: [n, input], in order
    iv_attempts,     \* calls of the session's synthesis so far
    iv_successes,    \* syntheses that succeeded so far
    iv_result        \* what the last synthesize() returned: "unset" | "True" | "False"

validatorVars == <<df_len, audio_files_len, dup_len, issues, warnings, printed, ready, vpc>>

launcherVars == <<script, lpc, child, returncode, emitted, pipe, log, success,
                  exit_status, interrupted, spawned, pkilled>>

synthVars == <<driver, texts, idx, attempted, saved, logged, sessions, spc, sresult,
              sexit>>

parseVars == <<log_content, metrics, ppc>>

monitorVars == <<trainer, files, writes, mpc, minterrupted, refreshes, shown>>

converterVars == <<entries, audio_dir, metadata_csv, ljspeech_csv, create_runs, fix_runs,
                   fix_seen, rows, unmatched>>

preprocessorVars == <<raw_files, processed, completed, errors, ai, apc>>

pipelineVars == <<pl_entries, pl_raw, pl_processed, pl_rows, pl_verdict, pl_order>>

builderVars == <<cb_dirs, cb_files, cb_last, cb_ret, cb_runs>>

splitVars == <<sp_n, sp_state, sp_train, sp_val, sp_prev, sp_runs, sp_pc>>

interactiveVars == <<iv_driver, iv_pc, iv_sessions, iv_loaded, counter, iv_inputs, iv_files,
                     iv_reported, iv_attempts, iv_successes, iv_result>>

vars == <<validatorVars, launcherVars, synthVars, parseVars, monitorVars, converterVars, preprocessorVars, pipelineVars, builderVars, splitVars, interactiveVars>>

(***************************************************************************)
(* Bounds of the model.                                                    *)
(***************************************************************************)
MaxRows == 101
MaxLines == 2
MaxTexts == 4
MaxLogLines == 2
MaxRefreshes == 2
MaxWrites == 2
MaxRuns == 2
MaxFiles == 2
MaxEntries == 80
MaxBuilds == 2
MaxMeta == 82
MaxSplits == 2
MaxInputs == 4

(***************************************************************************)
(* Helpers.                                                                *)
(***************************************************************************)
Range(s) == {s[i] : i \in 1..Len(s)}

(***************************************************************************)
(* Data Validator: validate_training_readiness(df, audio_dir).             *)
(***************************************************************************)
MIN_SAMPLES == 50
GOOD_SAMPLES == 100

\* A volume check that puts the boundary itself on the wrong side.
DataVolumeInclusive(n) ==
    IF n <= MIN_SAMPLES THEN "insufficient"
    ELSE IF n <= GOOD_SAMPLES THEN "limited"
    ELSE "good"

\* validate_data.py 139-144: the three-way classification of len(df).
DataVolume(n) ==
    IF n < MIN_SAMPLES THEN "insufficient"
    ELSE IF n < GOOD_SAMPLES THEN "limited"
    ELSE "good"

\* A count check that only objects to missing audio, not to surplus audio.
CountsMatchAtLeast(nAudio, n) == nAudio >= n

\* validate_data.py 147-151: len(audio_files) == len(df).
CountsMatch(nAudio, n) == nAudio = n

\* validate_data.py 135-151: the issues the checks append, in order.
IssuesOf(n, nAudio) ==
    (IF DataVolume(n) = "insufficient" THEN <<"Insufficient data">> ELSE <<>>)
    \o (IF CountsMatch(nAudio, n) THEN <<>> ELSE <<"Mismatch">>)

\* validate_data.py 136-156: the warnings the checks append, in order.
WarningsOf(n, nDup) ==
    (IF DataVolume(n) = "limited" THEN <<"Limited data">> ELSE <<>>)
    \o (IF nDup > 0 THEN <<"duplicate transcripts">> ELSE <<>>)

\* validate_data.py 159-168: the verdict line.
VerdictOf(iss, warn) ==
    IF Len(iss) > 0 THEN "NOT READY"
    ELSE IF Len(warn) > 0 THEN "READY WITH WARNINGS"
    ELSE "READY TO TRAIN"

\* validate_data.py 144, 149, 159-168: everything the function prints.
PrintedOf(n, nAudio, nDup) ==
    (IF DataVolume(n) = "good" THEN <<"Good data volume">> ELSE <<>>)
    \o (IF CountsMatch(nAudio, n) THEN <<"All metadata entries have audio">> ELSE <<>>)
    \o <<VerdictOf(IssuesOf(n, nAudio), WarningsOf(n, nDup))>>

\* duplicated(keep=False) marks every member of a group of equal transcripts:
\* never exactly one row, never more rows than the frame has.
DupCounts(n) == {d \in {0, 2, 3} : d <= n}

ValidatorIdle ==
    /\ df_len = 0
    /\ audio_files_len = 0
    /\ dup_len = 0
    /\ issues = <<>>
    /\ warnings = <<>>
    /\ printed = <<>>
    /\ ready = FALSE
    /\ vpc = "idle"

ValidatorInit ==
    /\ df_len \in 0..MaxRows
    /\ audio_files_len \in 0..MaxRows
    /\ dup_len \in DupCounts(df_len)
    /\ issues = <<>>
    /\ warnings = <<>>
    /\ printed = <<>>
    /\ ready = FALSE
    /\ vpc = "start"

\* validate_data.py 131-170.
validate_training_readiness ==
    /\ vpc = "start"
    /\ issues' = IssuesOf(df_len, audio_files_len)
    /\ warnings' = WarningsOf(df_len, dup_len)
    /\ printed' = PrintedOf(df_len, audio_files_len, dup_len)
    /\ ready' = (Len(issues') = 0)
    /\ vpc' = "done"
    /\ UNCHANGED <<df_len, audio_files_len, dup_len>>

(***************************************************************************)
(* Training Launchers.  Each launcher script starts the external trainer   *)
(* and reports how it ended.  The trainer child runs concurrently: it      *)
(* writes lines to its stdout and exits with some code at a time of its    *)
(* own choosing.  A KeyboardInterrupt can reach the launcher at any point. *)
(***************************************************************************)
Scripts == {"auto_start_training", "execute_full_training", "working_training",
            "arm_max_quality_training", "train_model", "train_voice_model"}

\* The scripts that read the child's combined output through a pipe.
Piped == {"auto_start_training", "execute_full_training", "working_training",
          "arm_max_quality_training"}

\* The launcher functions with an `except KeyboardInterrupt` clause around the run.
CatchesInterrupt == {"auto_start_training", "execute_full_training",
                     "arm_max_quality_training", "train_model"}

\* The launcher functions whose KeyboardInterrupt handler calls process.terminate().
TerminatesOnInterrupt == {"arm_max_quality_training"}

\* The scripts whose main() validates the environment before it launches.
ValidatesFirst == {"execute_full_training", "arm_max_quality_training", "train_model",
                   "train_voice_model"}

\* The scripts that ask the operator for confirmation with input().
AsksFirst == {"execute_full_training", "train_model"}

\* open(log, "w") once before the loop, or open(log, "a") for every line.
LogMode(s) == IF s = "execute_full_training" THEN "a" ELSE "w"

\* arm_max_quality_training.py 193-196: the header written after the open, the
\* title, "Started", "Command", the rule and an empty line.  The lines of the
\* child are numbered from 1 in the order it emits them, the five lines of the
\* header are written -1 to -5, and a line of an earlier run is written 0.
LogHeader(s) ==
    IF s = "arm_max_quality_training"
    THEN <<-1, -2, -3, -4, -5>>
    ELSE <<>>

\* The log file as left by an earlier run.
OldLogs == {<<>>, <<0>>}

BoolStr(b) == IF b THEN "True" ELSE "False"

\* A launcher that reports success as soon as the output stream has ended.
ReportOfIgnoringCode(rc) == "True"

\* `if process.returncode == 0: return True  else: return False`
\* (auto_start_training.py 90-95 and its siblings; train_model.py 198-204).
ReportOf(rc) == BoolStr(rc = 0)

\* `sys.exit(0 if success else 1)` (auto_start_training.py 126-128).
ExitCodeOf(s) == IF s = "True" THEN 0 ELSE 1

LauncherIdle ==
    /\ script = "none"
    /\ lpc = "idle"
    /\ child = "none"
    /\ returncode = 0
    /\ emitted = 0
    /\ pipe = <<>>
    /\ log = <<>>
    /\ success = "unset"
    /\ exit_status = -1
    /\ interrupted = FALSE
    /\ spawned = <<>>
    /\ pkilled = FALSE

LauncherInit ==
    /\ script \in Scripts
    /\ lpc = "main"
    /\ child = "none"
    /\ returncode = 0
    /\ emitted = 0
    /\ pipe = <<>>
    /\ log \in OldLogs
    /\ success = "unset"
    /\ exit_status = -1
    /\ interrupted = FALSE
    /\ spawned = <<>>
    /\ pkilled = FALSE

\* The function returns `value` to main().
Return(value) ==
    /\ lpc' = "returned"
    /\ success' = value

\* The script ends with `status` without the launcher function returning.
Exit(status) ==
    /\ lpc' = "exited"
    /\ exit_status' = status

\* main() up to the launch: the environment checks (execute_full_training.py
\* 254-256, arm_max_quality_training.py 231-245, train_model.py 253-256,
\* train_voice_model.py 104-107) and, in arm_max_quality_training, start_tensorboard
\* (107-132: pkill, then Popen with its failure swallowed).
MainBegin(envOk, tbOk) ==
    /\ lpc = "main"
    /\ IF script \in ValidatesFirst /\ ~envOk
       THEN /\ IF script = "train_voice_model" THEN Exit(1) /\ UNCHANGED success
                                               ELSE Return("False") /\ UNCHANGED exit_status
            /\ UNCHANGED <<spawned, pkilled>>
       ELSE /\ lpc' = IF script \in AsksFirst THEN "confirm"
                      ELSE IF script = "train_voice_model" THEN "training"
                      ELSE "try"
            /\ pkilled' = (script = "arm_max_quality_training")
            /\ spawned' = IF script = "arm_max_quality_training" /\ tbOk
                          THEN Append(spawned, "tensorboard") ELSE spawned
            /\ UNCHANGED <<success, exit_status>>
    /\ UNCHANGED <<script, child, returncode, emitted, pipe, log, interrupted>>

\* execute_full_training.py 162-166 and train_model.py 188-198: the answer to the
\* prompt.  train_model starts the child with subprocess.run, which blocks.
Confirm(yes, found) ==
    /\ lpc = "confirm"
    /\ IF ~yes
       THEN Return("False") /\ UNCHANGED <<child, spawned, exit_status>>
       ELSE IF script = "execute_full_training"
       THEN lpc' = "try" /\ UNCHANGED <<child, spawned, success, exit_status>>
       ELSE IF found
       THEN /\ lpc' = "run"
            /\ child' = "running"
            /\ spawned' = Append(spawned, "trainer")
            /\ UNCHANGED <<success, exit_status>>
       \* FileNotFoundError is neither CalledProcessError nor KeyboardInterrupt
       ELSE Exit(1) /\ UNCHANGED <<child, spawned, success>>
    /\ UNCHANGED <<script, returncode, emitted, pipe, log, interrupted, pkilled>>

\* subprocess.Popen(...) and, in the "w" launchers, open(log, "w") and the header
\* (auto_start_training.py 71-82).
Launch ==
    /\ lpc = "try"
    /\ lpc' = "streaming"
    /\ child' = "running"
    /\ spawned' = Append(spawned, "trainer")
    /\ log' = IF LogMode(script) = "w" THEN LogHeader(script) ELSE log
    /\ UNCHANGED <<script, returncode, emitted, pipe, success, exit_status,
                   interrupted, pkilled>>

\* os.chdir or Popen raises (no project directory, no interpreter): no child, and
\* `except Exception` returns False.
LaunchFails ==
    /\ lpc = "try"
    /\ Return("False")
    /\ UNCHANGED <<script, child, returncode, emitted, pipe, log, exit_status,
                   interrupted, spawned, pkilled>>

\* A write that puts the line before what the file holds.
WriteAtStart(f, line) == <<line>> \o f

\* log_file.write(line); log_file.flush(): the line goes to the end of the file.
WriteLine(f, line) == Append(f, line)

\* `for line in process.stdout: print; log_file.write(line); log_file.flush()`.
ReadLine ==
    /\ lpc = "streaming"
    /\ pipe # <<>>
    /\ log' = WriteLine(log, Head(pipe))
    /\ pipe' = Tail(pipe)
    /\ UNCHANGED <<script, lpc, child, returncode, emitted, success, exit_status,
                   interrupted, spawned, pkilled>>

\* Opening or writing the log raises OSError (no directory, disk full): the line
\* read is lost and `except Exception` returns False.
LogWriteFails ==
    /\ lpc = "streaming"
    /\ pipe # <<>>
    /\ pipe' = Tail(pipe)
    /\ Return("False")
    /\ UNCHANGED <<script, child, returncode, emitted, log, exit_status,
                   interrupted, spawned, pkilled>>

\* The child's stdout reaches end of file: the loop ends, process.wait() follows.
EndOfStream ==
    /\ lpc = "streaming"
    /\ pipe = <<>>
    /\ child = "exited"
    /\ lpc' = "wait"
    /\ UNCHANGED <<script, child, returncode, emitted, pipe, log, success,
                   exit_status, interrupted, spawned, pkilled>>

\* process.wait() returns and the return code decides the report; for
\* train_model, subprocess.run(check=True) returns or raises CalledProcessError.
Wait ==
    /\ lpc \in {"wait", "run"}
    /\ child = "exited"
    /\ Return(ReportOf(returncode))
    /\ UNCHANGED <<script, child, returncode, emitted, pipe, log, exit_status,
                   interrupted, spawned, pkilled>>

\* What a KeyboardInterrupt does to the child: process.terminate() sends SIGTERM
\* (arm_max_quality_training.py 219); subprocess.run kills the child and reaps it
\* before the exception reaches train_model.py 205; the others leave it alone.
ChildAfterInterrupt(s, c) ==
    IF c # "running" THEN c
    ELSE IF s \in TerminatesOnInterrupt THEN "sigterm"
    ELSE IF s = "train_model" THEN "exited"
    ELSE c

\* A KeyboardInterrupt is delivered to the launcher.
Interrupt ==
    /\ lpc \in {"main", "confirm", "try", "streaming", "wait", "run", "training",
                "returned"}
    /\ ~interrupted
    /\ interrupted' = TRUE
    /\ CASE lpc \in {"main", "confirm", "returned"} ->
              \* outside every try block: the interpreter dies of the interrupt
              Exit(130) /\ UNCHANGED <<success, child, returncode>>
         [] lpc = "training" ->
              \* train_voice_model.py 142-144
              Exit(0) /\ UNCHANGED <<success, child, returncode>>
         [] lpc = "try" ->
              IF script = "arm_max_quality_training"
              \* `process` is not bound yet: the handler itself raises
              THEN Exit(1) /\ UNCHANGED <<success, child, returncode>>
              ELSE IF script \in CatchesInterrupt
              THEN Return("False") /\ UNCHANGED <<exit_status, child, returncode>>
              ELSE Exit(130) /\ UNCHANGED <<success, child, returncode>>
         [] lpc \in {"streaming", "wait", "run"} ->
              /\ child' = ChildAfterInterrupt(script, child)
              /\ returncode' = IF child = "running" /\ child' = "exited"
                               THEN -9 ELSE returncode
              /\ IF script \in CatchesInterrupt
                 THEN Return("False") /\ UNCHANGED exit_status
                 ELSE Exit(130) /\ UNCHANGED success
    /\ UNCHANGED <<script, emitted, pipe, log, spawned, pkilled>>

\* `sys.exit(0 if success else 1)`.
MainExit ==
    /\ lpc = "returned"
    /\ Exit(ExitCodeOf(success))
    /\ UNCHANGED <<script, child, returncode, emitted, pipe, log, success,
                   interrupted, spawned, pkilled>>

\* train_voice_model.py 138-149: train_main() runs inside the launcher's process
\* and returns, or raises an Exception.
TrainInProcess(ok) ==
    /\ lpc = "training"
    /\ Exit(IF ok THEN 0 ELSE 1)
    /\ UNCHANGED <<script, child, returncode, emitted, pipe, log, success,
                   interrupted, spawned, pkilled>>

\* The trainer writes one more line to its stdout.
ChildEmit ==
    /\ child \in {"running", "sigterm"}
    /\ emitted < MaxLines
    /\ emitted' = emitted + 1
    /\ pipe' = IF script \in Piped THEN Append(pipe, emitted + 1) ELSE pipe
    /\ UNCHANGED <<script, lpc, child, returncode, log, success, exit_status,
                   interrupted, spawned, pkilled>>

\* The trainer exits by itself with `code`, or dies of the SIGTERM it was sent.
ChildExit(code) ==
    /\ child \in {"running", "sigterm"}
    /\ child' = "exited"
    /\ returncode' = IF child = "sigterm" THEN -15 ELSE code
    /\ UNCHANGED <<script, lpc, emitted, pipe, log, success, exit_status,
                   interrupted, spawned, pkilled>>

(***************************************************************************)
(* Inference Drivers: the multi-text synthesis loops.  Synthesising one    *)
(* text either succeeds (the audio file is saved) or raises.               *)
(***************************************************************************)
Drivers == {"test_model_synthesis", "test_model", "batch_synthesize"}

\* test_model.py 67-74 and 218-220: the five default texts or the one --text;
\* test_model_mac.py 72-76: three texts; batch_synthesis_mac.py 35-36: the
\* non-empty, non-comment lines of the text file.
TextCounts(d) ==
    IF d = "test_model_synthesis" THEN {1, 5}
    ELSE IF d = "test_model" THEN {3}
    ELSE 0..MaxTexts

\* batch_synthesis_mac.py 44-51 wraps one text in try/except and goes on;
\* test_model.py 93-115 wraps the whole loop, and test_model_mac.py 98-100
\* returns False from inside the loop.
ContinuesAfterFailure(d) == d = "batch_synthesize"

\* A driver in which a failed load of the model is reported, not raised:
\* batch_synthesis_mac.py 24-28 constructs the Synthesizer outside any try.
ReportsLoadFailure(d) == d # "batch_synthesize"

SynthIdle ==
    /\ driver = "none"
    /\ texts = 0
    /\ idx = 0
    /\ attempted = {}
    /\ saved = {}
    /\ logged = {}
    /\ sessions = 0
    /\ spc = "idle"
    /\ sresult = "unset"
    /\ sexit = -1

SynthInit ==
    /\ driver \in Drivers
    /\ texts \in TextCounts(driver)
    /\ idx = 0
    /\ attempted = {}
    /\ saved = {}
    /\ logged = {}
    /\ sessions = 0
    /\ spc = "start"
    /\ sresult = "unset"
    /\ sexit = -1

\* The function up to its loop: the model and config files are looked up
\* (test_model_mac.py 33-52), the session is constructed (test_model.py 96,
\* test_model_mac.py 59-68, batch_synthesis_mac.py 24-28) and the text file is
\* read (batch_synthesis_mac.py 31-36).
SynthLoad(filesOk, loadOk) ==
    /\ spc = "start"
    /\ IF driver = "test_model" /\ ~filesOk
       THEN spc' = "done" /\ sresult' = "False" /\ UNCHANGED <<sessions, idx>>
       ELSE IF ~loadOk
       THEN /\ spc' = IF ReportsLoadFailure(driver) THEN "done" ELSE "raised"
            /\ sresult' = IF ReportsLoadFailure(driver) THEN "False" ELSE sresult
            /\ UNCHANGED <<sessions, idx>>
       ELSE IF driver = "batch_synthesize" /\ ~filesOk
       THEN spc' = "done" /\ sresult' = "False" /\ sessions' = sessions + 1
            /\ UNCHANGED idx
       ELSE spc' = "loop" /\ idx' = 1 /\ sessions' = sessions + 1
            /\ UNCHANGED sresult
    /\ UNCHANGED <<driver, texts, attempted, saved, logged, sexit>>

\* One turn of the loop: the text at idx is synthesised and saved, or raises
\* (test_model.py 100-105, test_model_mac.py 78-100, batch_synthesis_mac.py 41-51).
SynthText(ok) ==
    /\ spc = "loop"
    /\ idx <= texts
    /\ attempted' = attempted \cup {idx}
    /\ IF ok
       THEN /\ saved' = saved \cup {idx}
            /\ idx' = idx + 1
            /\ UNCHANGED <<logged, spc, sresult>>
       ELSE /\ logged' = logged \cup {idx}
            /\ IF ContinuesAfterFailure(driver)
               THEN idx' = idx + 1 /\ UNCHANGED <<spc, sresult>>
               ELSE spc' = "done" /\ sresult' = "False" /\ UNCHANGED idx
            /\ UNCHANGED saved
    /\ UNCHANGED <<driver, texts, sessions, sexit>>

\* The loop is exhausted and the function returns True.
SynthFinish ==
    /\ spc = "loop"
    /\ idx > texts
    /\ spc' = "done"
    /\ sresult' = "True"
    /\ UNCHANGED <<driver, texts, idx, attempted, saved, logged, sessions, sexit>>

\* The exit status of the script: test_model.py 226-227 and test_model_mac.py
\* 111-112 end with `sys.exit(0 if success else 1)`; batch_synthesis_mac.py
\* 56-57 calls batch_synthesize() and drops what it returns, so the script
\* ends with 0 unless the call raised (the interpreter then ends with 1).
ExitStatusOf(d, raised, result) ==
    IF raised THEN 1
    ELSE IF d = "batch_synthesize" THEN 0
    ELSE ExitCodeOf(result)

\* The `if __name__ == "__main__"` block after the function has ended.
SynthExit ==
    /\ spc \in {"done", "raised"}
    /\ spc' = "exited"
    /\ sexit' = ExitStatusOf(driver, spc = "raised", sresult)
    /\ UNCHANGED <<driver, texts, idx, attempted, saved, logged, sessions, sresult>>

(***************************************************************************)
(* Text.  A Python str is a sequence of one-character strings, and the     *)
(* str methods the scripts use are defined on such sequences the way       *)
(* Python defines them.                                                    *)
(***************************************************************************)
Whitespace == {" ", "\t", "\n", "\r"}

\* s[i:] for a 1-based i
From(s, i) == SubSeq(s, i, Len(s))

\* s.startswith(p)
StartsWith(s, p) == Len(p) <= Len(s) /\ SubSeq(s, 1, Len(p)) = p

\* s.find(sub) + 1: the least 1-based index at which sub occurs in s, or 0
Find(sub, s) ==
    LET hits == {i \in 1..(Len(s) - Len(sub) + 1) : SubSeq(s, i, i + Len(sub) - 1) = sub}
    IN IF hits = {} THEN 0 ELSE CHOOSE i \in hits : \A j \in hits : i <= j

\* sub in s
Contains(sub, s) == Find(sub, s) # 0

\* s.split(sep): the pieces between the occurrences of sep, taken left to right
RECURSIVE Split(_, _)
Split(s, sep) ==
    LET i == Find(sep, s)
    IN IF i = 0 THEN <<s>>
       ELSE <<SubSeq(s, 1, i - 1)>> \o Split(From(s, i + Len(sep)), sep)

\* s.split(sep, 1)
SplitOnce(s, sep) ==
    LET i == Find(sep, s)
    IN IF i = 0 THEN <<s>>
       ELSE <<SubSeq(s, 1, i - 1), From(s, i + Len(sep))>>

RECURSIVE LStrip(_)
LStrip(s) == IF s # <<>> /\ Head(s) \in Whitespace THEN LStrip(Tail(s)) ELSE s

RECURSIVE RStrip(_)
RStrip(s) ==
    IF s # <<>> /\ s[Len(s)] \in Whitespace THEN RStrip(SubSeq(s, 1, Len(s) - 1)) ELSE s

\* s.strip()
Strip(s) == RStrip(LStrip(s))

\* the length of the longest prefix of s without whitespace
RECURSIVE WordLen(_)
WordLen(s) == IF s = <<>> \/ Head(s) \in Whitespace THEN 0 ELSE 1 + WordLen(Tail(s))

\* s.split(): the maximal runs of non-whitespace characters
RECURSIVE Words(_)
Words(s) ==
    LET t == LStrip(s)
    IN IF t = <<>> THEN <<>>
       ELSE <<SubSeq(t, 1, WordLen(t))>> \o Words(From(t, WordLen(t) + 1))

\* sep.join(parts)
RECURSIVE Join(_, _)
Join(parts, sep) ==
    IF parts = <<>> THEN <<>>
    ELSE IF Len(parts) = 1 THEN parts[1]
    ELSE parts[1] \o sep \o Join(Tail(parts), sep)

\* s.replace(old, new): every non-overlapping occurrence, left to right
Replace(s, old, new) == Join(Split(s, old), new)

(***************************************************************************)
(* Training Monitor: parse_training_metrics(log_content).                   *)
(***************************************************************************)
NA == <<"N", "/", "A">>
S_EPOCH == <<"E", "P", "O", "C", "H", ":">>
S_STEP == <<"S", "T", "E", "P", ":">>
S_GLOBAL_STEP == <<"G", "L", "O", "B", "A", "L", "_", "S", "T", "E", "P", ":">>
S_DD_GLOBAL_STEP == <<"-", "-", " ", "G", "L", "O", "B", "A", "L", "_", "S", "T", "E", "P", ":">>
S_DD == <<"-", "-">>
S_BAR == <<"|", " ", ">">>
S_COLON == <<":">>
S_SLASH == <<"/">>
S_LOSS == <<"l", "o", "s", "s", ":">>
S_CURRENT_LR == <<"c", "u", "r", "r", "e", "n", "t", "_", "l", "r", ":">>
S_STEP_TIME == <<"s", "t", "e", "p", "_", "t", "i", "m", "e", ":">>
S_GRAD_NORM == <<"g", "r", "a", "d", "_", "n", "o", "r", "m", ":">>
S_TRAINING == <<"T", "R", "A", "I", "N", "I", "N", "G", " ", "(">>
S_RPAREN == <<")">>
S_NL == <<"\n">>

\* monitor_training.py 97-106: the dict the function starts from.
InitialMetrics ==
    [k \in {"epoch", "step", "total_steps", "loss", "lr", "step_time", "grad_norm",
            "last_update"} |-> NA]

\* The result of handling one line: the keys it assigns and the exception the
\* branch raised, "none" if it ran through.
Assigned(upd) == [upd |-> upd, exc |-> "none"]
Raised(e) == [upd |-> <<>>, exc |-> e]

\* monitor_training.py 113-115: line.split('EPOCH:')[1].split()[0]
EpochBranch(line) ==
    LET w == Words(Split(line, S_EPOCH)[2])
    IN IF w = <<>> THEN Raised("IndexError")
       ELSE Assigned("epoch" :> w[1])

\* monitor_training.py 121-131
StepBranch(line) ==
    LET step_part == Strip(Split(Split(line, S_STEP)[2], S_DD)[1])
        halves == Split(step_part, S_SLASH)
        global_step == Strip(Split(line, S_GLOBAL_STEP)[2])
    IN IF ~Contains(S_SLASH, step_part)
       THEN Assigned("global_step" :> global_step)
       ELSE IF Len(halves) # 2 THEN Raised("ValueError")
       ELSE Assigned(("global_step" :> global_step)
                     @@ ("step" :> Strip(halves[1]))
                     @@ ("total_steps" :> Strip(halves[2])))

\* parts.split(':')[1].split()[0]
FirstWordAfterColon(parts) == Words(Split(parts, S_COLON)[2])

\* monitor_training.py 137-150
MetricBranch(line) ==
    LET parts == Strip(Split(line, S_BAR)[2])
        w == FirstWordAfterColon(parts)
    IN IF StartsWith(parts, S_LOSS)
       THEN IF w = <<>> THEN Raised("IndexError") ELSE Assigned("loss" :> w[1])
       ELSE IF StartsWith(parts, S_CURRENT_LR)
       THEN Assigned("lr" :> Strip(Split(parts, S_COLON)[2]))
       ELSE IF StartsWith(parts, S_STEP_TIME)
       THEN IF w = <<>> THEN Raised("IndexError")
            ELSE Assigned("step_time" :> (w[1] \o <<"s">>))
       ELSE IF StartsWith(parts, S_GRAD_NORM)
       THEN IF w = <<>> THEN Raised("IndexError") ELSE Assigned("grad_norm" :> w[1])
       ELSE Assigned(<<>>)

\* monitor_training.py 156-158: line.split('TRAINING (')[1].split(')')[0].split()[1]
TimestampBranch(line) ==
    LET w == Words(Split(Split(line, S_TRAINING)[2], S_RPAREN)[1])
    IN IF Len(w) < 2 THEN Raised("IndexError")
       ELSE Assigned("last_update" :> w[2])

\* monitor_training.py 109-160: the if/elif chain on the stripped line.
LineResult(raw) ==
    LET line == Strip(raw)
    IN IF Contains(S_EPOCH, line) THEN EpochBranch(line)
       ELSE IF Contains(S_DD_GLOBAL_STEP, line) THEN StepBranch(line)
       ELSE IF Contains(S_BAR, line) /\ Contains(S_COLON, line) THEN MetricBranch(line)
       ELSE IF Contains(S_TRAINING, line) THEN TimestampBranch(line)
       ELSE Assigned(<<>>)

\* monitor_training.py 116, 132, 151, 159: the bare `except: pass` of every branch.
Catches(e) == TRUE

\* The for-loop over the lines: the metrics after the loop, and the exception
\* that ended it early ("none" if it ran to the end).
RECURSIVE ParseLines(_, _)
ParseLines(lines, m) ==
    IF lines = <<>> THEN [metrics |-> m, exc |-> "none"]
    ELSE LET r == LineResult(Head(lines))
         IN IF r.exc # "none" /\ ~Catches(r.exc)
            THEN [metrics |-> m, exc |-> r.exc]
            ELSE ParseLines(Tail(lines), IF r.exc = "none" THEN r.upd @@ m ELSE m)

\* monitor_training.py 93-162
ParseTrainingMetrics(content) == ParseLines(Split(content, S_NL), InitialMetrics)

\* The shapes a log line begins with and the ways it goes on: whole lines of the
\* trainer, lines cut short by a partial write, and lines that mix two shapes.
LineHeads == {<<>>,
              <<"E", "P", "O", "C", "H", ":">>,
              <<"-", "-", ">", " ", "S", "T", "E", "P", ":">>,
              <<"|", " ", ">", " ", "l", "o", "s", "s", ":">>,
              <<"|", " ", ">", " ", "c", "u", "r", "r", "e", "n", "t", "_", "l", "r", ":">>,
              <<"|", " ", ">", " ", "s", "t", "e", "p", "_", "t", "i", "m", "e", ":">>,
              <<"x">>}

LineTails == {<<>>,
              <<" ", "7">>,
              <<" ", "3", "/", "9", " ", "-", "-", " ", "G", "L", "O", "B", "A", "L", "_", "S", "T", "E", "P", ":", " ", "7">>,
              <<" ", "/", " ", "-", "-", " ", "G", "L", "O", "B", "A", "L", "_", "S", "T", "E", "P", ":">>,
              <<" ", "7", " ", "E", "P", "O", "C", "H", ":", " ", "9">>,
              <<" ", "3", "/", "9", "/", "1", " ", "-", "-", " ", "G", "L", "O", "B", "A", "L", "_", "S", "T", "E", "P", ":", " ", "7">>}

LogLines == {h \o t : h \in LineHeads, t \in LineTails}

\* The log texts of exactly n lines.
RECURSIVE LogTexts(_)
LogTexts(n) ==
    IF n = 1 THEN LogLines
    ELSE {l \o S_NL \o rest : l \in LogLines, rest \in LogTexts(n - 1)}

\* The empty text and every text of at most MaxLogLines lines.
LogContents == {<<>>} \cup UNION {LogTexts(n) : n \in 1..MaxLogLines}

ParseIdle ==
    /\ log_content = <<>>
    /\ metrics = InitialMetrics
    /\ ppc = "idle"

ParseInit ==
    /\ log_content \in LogContents
    /\ metrics = InitialMetrics
    /\ ppc = "start"

\* monitor_training.py 93-162
parse_training_metrics ==
    /\ ppc = "start"
    /\ LET r == ParseTrainingMetrics(log_content)
       IN /\ metrics' = r.metrics
          /\ ppc' = IF r.exc = "none" THEN "done" ELSE "raised"
    /\ UNCHANGED log_content

(***************************************************************************)
(* Training Monitor: the refresh loop monitor_training() with              *)
(* check_training_process() and get_latest_log_output().  The process      *)
(* table and the log files are the environment.                            *)
(***************************************************************************)
\* The lines `ps aux` prints: its header, another process, the trainer, and
\* the trainer as a `ps` that prints three columns shows it.
PS_HEADER == <<"U", "S", "E", "R", " ", "P", "I", "D", " ", "%", "C", "P", "U", " ", "%", "M", "E", "M", " ", "V", "S", "Z", " ", "R", "S", "S", " ", "T", "T", "Y", " ", "S", "T", "A", "T", " ", "S", "T", "A", "R", "T", " ", "T", "I", "M", "E", " ", "C", "O", "M", "M", "A", "N", "D">>
PS_OTHER == <<"u", " ", "1", " ", "0", ".", "0", " ", "0", ".", "1", " ", "1", " ", "1", " ", "?", " ", "S", " ", "0", " ", "0", " ", "i", "n", "i", "t">>
PS_TRAINER == <<"u", " ", "7", " ", "9", ".", "0", " ", "2", ".", "5", " ", "1", " ", "1", " ", "?", " ", "R", " ", "0", " ", "0", " ", "p", "y", "t", "h", "o", "n", " ", "t", "r", "a", "i", "n", "_", "t", "t", "s">>
PS_SHORT == <<"7", " ", "p", "y", "t", "h", "o", "n", " ", "t", "r", "a", "i", "n", "_", "t", "t", "s">>
S_TRAIN_TTS == <<"t", "r", "a", "i", "n", "_", "t", "t", "s">>
S_PYTHON == <<"p", "y", "t", "h", "o", "n">>

\* The standard output of `ps aux`, by the state of the trainer; a second
\* matching line is a worker of the trainer.
PsOutputs(t) ==
    IF t = "running"
    THEN {Join(<<PS_HEADER, PS_OTHER, PS_TRAINER>>, S_NL) \o S_NL,
          Join(<<PS_HEADER, PS_TRAINER, PS_TRAINER>>, S_NL) \o S_NL,
          Join(<<PS_HEADER, PS_SHORT, PS_OTHER>>, S_NL) \o S_NL}
    ELSE {Join(<<PS_HEADER, PS_OTHER>>, S_NL) \o S_NL}

\* [line for line in lines if 'train_tts' in line and 'python' in line]
RECURSIVE TrainingLines(_)
TrainingLines(lines) ==
    IF lines = <<>> THEN <<>>
    ELSE (IF Contains(S_TRAIN_TTS, Head(lines)) /\ Contains(S_PYTHON, Head(lines))
          THEN <<Head(lines)>> ELSE <<>>) \o TrainingLines(Tail(lines))

\* check_training_process(): the matching lines, none if running ps raised
check_training_process(psOk, stdout) ==
    IF psOk THEN TrainingLines(Split(stdout, S_NL)) ELSE <<>>

\* The six paths get_latest_log_output looks at, in its order.
log_files == <<<<"/", "s", "s", "d", "/", "t", "t", "s", "_", "p", "r", "o", "j", "e", "c", "t", "/", "t", "r", "a", "i", "n", "i", "n", "g", "_", "p", "r", "o", "p", "e", "r", ".", "l", "o", "g">>,
               <<"/", "s", "s", "d", "/", "t", "t", "s", "_", "p", "r", "o", "j", "e", "c", "t", "/", "t", "r", "a", "i", "n", "i", "n", "g", "_", "c", "u", "r", "r", "e", "n", "t", ".", "l", "o", "g">>,
               <<"/", "s", "s", "d", "/", "t", "t", "s", "_", "p", "r", "o", "j", "e", "c", "t", "/", "t", "r", "a", "i", "n", "i", "n", "g", "_", "o", "u", "t", "p", "u", "t", "_", "n", "o", "_", "s", "s", "i", "m", ".", "l", "o", "g">>,
               <<"/", "s", "s", "d", "/", "t", "t", "s", "_", "p", "r", "o", "j", "e", "c", "t", "/", "t", "r", "a", "i", "n", "i", "n", "g", "_", "o", "u", "t", "p", "u", "t", "_", "f", "i", "x", "e", "d", ".", "l", "o", "g">>,
               <<"/", "s", "s", "d", "/", "t", "t", "s", "_", "p", "r", "o", "j", "e", "c", "t", "/", "t", "r", "a", "i", "n", "i", "n", "g", "_", "o", "u", "t", "p", "u", "t", ".", "l", "o", "g">>,
               <<"/", "s", "s", "d", "/", "t", "t", "s", "_", "p", "r", "o", "j", "e", "c", "t", "/", "t", "r", "a", "i", "n", "i", "n", "g", "_", "p", "r", "o", "g", "r", "e", "s", "s", ".", "l", "o", "g">>>>

\* os.path.basename(path)
BaseName(path) == LET pieces == Split(path, S_SLASH) IN pieces[Len(pieces)]

\* The loop of lines 63-68: the latest of the existing files, the earlier in
\* the list on a tie; the empty path if there is none.
RECURSIVE LatestLog(_, _, _, _)
LatestLog(fs, i, latest_log, latest_time) ==
    IF i > Len(log_files) THEN latest_log
    ELSE IF log_files[i] \in DOMAIN fs /\ fs[log_files[i]].mtime > latest_time
         THEN LatestLog(fs, i + 1, log_files[i], fs[log_files[i]].mtime)
         ELSE LatestLog(fs, i + 1, latest_log, latest_time)

\* tail -n: the last n lines of a text whose lines end with a newline
LastLines(text, n) ==
    LET pieces == Split(text, S_NL)
        k == Len(pieces)
        lines == IF pieces[k] = <<>> THEN SubSeq(pieces, 1, k - 1) ELSE pieces
        kept == SubSeq(lines, IF Len(lines) > n THEN Len(lines) - n + 1 ELSE 1, Len(lines))
    IN IF text = <<>> THEN <<>>
       ELSE Join(kept, S_NL) \o (IF pieces[k] = <<>> THEN S_NL ELSE <<>>)

Digit(d) == <<CASE d = 0 -> "0" [] d = 1 -> "1" [] d = 2 -> "2" [] d = 3 -> "3"
                [] d = 4 -> "4" [] d = 5 -> "5" [] d = 6 -> "6" [] d = 7 -> "7"
                [] d = 8 -> "8" [] d = 9 -> "9">>

\* str(n)
RECURSIVE Decimal(_)
Decimal(n) == IF n < 10 THEN Digit(n) ELSE Decimal(n \div 10) \o Digit(n % 10)

\* f"{n:03d}" and f"{n:02d}"
Pad3(n) == Digit(n \div 100) \o Digit((n \div 10) % 10) \o Digit(n % 10)
Pad2(n) == Digit((n \div 10) % 10) \o Digit(n % 10)

\* f"{n:,}"
RECURSIVE Grouped(_)
Grouped(n) == IF n < 1000 THEN Decimal(n) ELSE Grouped(n \div 1000) \o <<",">> \o Pad3(n % 1000)

\* strftime('%H:%M:%S') of a time stamp, in UTC
Clock(t) ==
    Pad2((t \div 3600) % 24) \o <<":">> \o Pad2((t \div 60) % 60) \o <<":">> \o Pad2(t % 60)

\* The three header lines of lines 85-87, without the two pictographs.
Header(name, size, mtime) ==
    <<" ", "R", "e", "a", "d", "i", "n", "g", " ", "f", "r", "o", "m", ":", " ">> \o BaseName(name) \o S_NL
    \o <<" ", "S", "i", "z", "e", ":", " ">> \o Grouped(size) \o <<" ", "b", "y", "t", "e", "s", " ", "|", " ", "L", "a", "s", "t", " ", "m", "o", "d", "i", "f", "i", "e", "d", ":", " ">> \o Clock(mtime) \o S_NL
    \o [i \in 1..60 |-> "-"] \o S_NL

S_NO_LOG == <<"N", "o", " ", "l", "o", "g", " ", "f", "i", "l", "e", " ", "f", "o", "u", "n", "d", " ", "y", "e", "t", ".", ".", ".">>

\* get_latest_log_output()
get_latest_log_output(fs) ==
    LET latest_log == LatestLog(fs, 1, <<>>, 0)
    IN IF latest_log = <<>> THEN S_NO_LOG
       ELSE Header(latest_log, Len(fs[latest_log].content), fs[latest_log].mtime)
            \o LastLines(fs[latest_log].content, 20)

\* Lines 297-310: what the refresh prints about the process, and whether the
\* statement mem_usage = parts[3] raised IndexError.
ProcessStatus(process_lines) ==
    IF process_lines # <<>>
    THEN LET parts == Words(process_lines[1])
         IN IF Len(parts) >= 3
            THEN IF 4 \in DOMAIN parts
                 THEN [status |-> "RUNNING", active |-> Len(process_lines),
                       cpu |-> parts[3], mem |-> parts[4], exc |-> "none"]
                 ELSE [status |-> "RUNNING", active |-> Len(process_lines),
                       cpu |-> NA, mem |-> NA, exc |-> "IndexError"]
            ELSE [status |-> "RUNNING", active |-> Len(process_lines),
                  cpu |-> NA, mem |-> NA, exc |-> "none"]
    ELSE [status |-> "NOT DETECTED", active |-> 0, cpu |-> NA, mem |-> NA, exc |-> "none"]

\* The screen before the first refresh.
Blank == [status |-> "", active |-> 0, cpu |-> NA, mem |-> NA, exc |-> "none",
          metrics |-> InitialMetrics, log_output |-> <<>>]

\* The lines the trainer writes to a log in the bounded environment.
TrainerLines == {<<"-", "-", ">", " ", "S", "T", "E", "P", ":", " ", "3", "/", "9", " ", "-", "-", " ", "G", "L", "O", "B", "A", "L", "_", "S", "T", "E", "P", ":", " ", "7">>, <<"|", " ", ">", " ", "l", "o", "s", "s", ":", " ", "7">>}

\* The log files that exist in the bounded environment.
LiveLogs == {log_files[1], log_files[5]}

MonitorIdle ==
    /\ trainer = "absent"
    /\ files = <<>>
    /\ writes = 0
    /\ mpc = "idle"
    /\ minterrupted = FALSE
    /\ refreshes = 0
    /\ shown = Blank

\* monitor_training() has printed its banner and is about to refresh
MonitorInit ==
    /\ trainer = "absent"
    /\ files = <<>>
    /\ writes = 0
    /\ mpc = "loop"
    /\ minterrupted = FALSE
    /\ refreshes = 0
    /\ shown = Blank

\* One pass of the while loop: lines 286-360.
Refresh(psOk, stdout) ==
    /\ mpc = "loop"
    /\ refreshes < MaxRefreshes
    /\ LET process_lines == check_training_process(psOk, stdout)
           p == ProcessStatus(process_lines)
           log_output == get_latest_log_output(files)
       IN IF p.exc # "none"
          THEN /\ mpc' = "crashed"
               /\ shown' = p @@ [metrics |-> shown.metrics, log_output |-> shown.log_output]
               /\ UNCHANGED refreshes
          ELSE /\ shown' = p @@ [metrics |-> ParseTrainingMetrics(log_output),
                                 log_output |-> log_output]
               /\ refreshes' = refreshes + 1
               /\ UNCHANGED mpc
    /\ UNCHANGED <<trainer, files, writes, minterrupted>>

\* Ctrl+C: lines 362-365.
MonitorInterrupt ==
    /\ mpc = "loop"
    /\ mpc' = "stopped"
    /\ minterrupted' = TRUE
    /\ UNCHANGED <<trainer, files, writes, refreshes, shown>>

\* The environment: the trainer starts, ends, and writes a log line.
TrainerStarts ==
    /\ trainer = "absent"
    /\ trainer' = "running"
    /\ UNCHANGED <<files, writes, mpc, minterrupted, refreshes, shown>>

TrainerExits ==
    /\ trainer = "running"
    /\ trainer' = "exited"
    /\ UNCHANGED <<files, writes, mpc, minterrupted, refreshes, shown>>

TrainerWrites(name, line) ==
    /\ trainer = "running"
    /\ writes < MaxWrites
    /\ writes' = writes + 1
    /\ files' = (name :> [mtime |-> writes + 1,
                          content |-> (IF name \in DOMAIN files THEN files[name].content
                                       ELSE <<>>) \o line \o S_NL]) @@ files
    /\ UNCHANGED <<trainer, mpc, minterrupted, refreshes, shown>>

(***************************************************************************)
(* Metadata Converter: create_metadata_from_json() writes metadata.csv     *)
(* from training.json and the audio directory; fix_metadata.main() writes  *)
(* metadata_ljspeech.csv from metadata.csv.  A file is [exists, content].  *)
(***************************************************************************)
S_WAV == <<".", "w", "a", "v">>
S_PIPE == <<"|">>
S_SPACE == <<" ">>
S_CR == <<"\r">>

NoFile == [exists |-> FALSE, content |-> <<>>]
File(text) == [exists |-> TRUE, content |-> text]

\* s.endswith(p)
EndsWith(s, p) == Len(p) <= Len(s) /\ SubSeq(s, Len(s) - Len(p) + 1, Len(s)) = p

\* open(path, 'a') keeps what the file holds; open(path, 'w') truncates it.
OpenForAppending(old) == old
OpenForWriting(old) == <<>>

\* \w of the re module, for the ASCII characters
WordChars ==
    {"a", "b", "c", "d", "e", "f", "g", "h", "i", "j", "k", "l", "m", "n", "o", "p", "q", "r", "s", "t", "u", "v", "w", "x", "y", "z"}
    \cup {"A", "B", "C", "D", "E", "F", "G", "H", "I", "J", "K", "L", "M", "N", "O", "P", "Q", "R", "S", "T", "U", "V", "W", "X", "Y", "Z"}
    \cup {"0", "1", "2", "3", "4", "5", "6", "7", "8", "9", "_"}

\* a class that lets '|' through
AllowedWithPipe == WordChars \cup Whitespace \cup {".", ",", "!", "?", "-", "|"}

\* the class [\w\s.,!?-]
Allowed == WordChars \cup Whitespace \cup {".", ",", "!", "?", "-"}

\* re.sub(r'\s+', ' ', text)
RECURSIVE CollapseSpaces(_)
CollapseSpaces(text) ==
    IF text = <<>> THEN <<>>
    ELSE IF Head(text) \in Whitespace THEN S_SPACE \o CollapseSpaces(LStrip(text))
    ELSE <<Head(text)>> \o CollapseSpaces(Tail(text))

clean_and_normalize_text(text) ==
    Strip(CollapseSpaces(SelectSeq(text, LAMBDA c : c \in Allowed)))

\* One line of metadata.csv in fix_metadata.main: nothing for a line without
\* '|', else the filename and the row written.
ConvertLine(raw) ==
    LET line == Strip(raw)
    IN IF Contains(S_PIPE, line)
       THEN LET filename == SplitOnce(line, S_PIPE)[1]
                text == SplitOnce(line, S_PIPE)[2]
                file_id == Replace(filename, S_WAV, <<>>)
                cleaned_text == clean_and_normalize_text(text)
            IN <<[filename |-> filename, text |-> text,
                  written |-> file_id \o S_PIPE \o cleaned_text \o S_PIPE \o cleaned_text
                              \o S_NL]>>
       ELSE <<>>

RECURSIVE ConvertLines(_)
ConvertLines(lines) ==
    IF lines = <<>> THEN <<>> ELSE ConvertLine(Head(lines)) \o ConvertLines(Tail(lines))

\* what a sequence of writes leaves in the file
RECURSIVE Written(_)
Written(rs) == IF rs = <<>> THEN <<>> ELSE Head(rs).written \o Written(Tail(rs))

\* The mapping of lines 36-37: filename -> text over entries[:80], a later
\* entry replacing an earlier one of the same filename.
FIRST_ENTRIES == 80

RECURSIVE Mapping(_)
Mapping(es) ==
    IF es = <<>> THEN <<>>
    ELSE (es[Len(es)].filename :> es[Len(es)].text) @@ Mapping(SubSeq(es, 1, Len(es) - 1))

filename_to_text(es) ==
    Mapping(SubSeq(es, 1, IF Len(es) < FIRST_ENTRIES THEN Len(es) ELSE FIRST_ENTRIES))

\* The characters of the file names, in code-point order, and the order of
\* str on them.
CodePoints == <<".", "a", "b", "n", "t", "v", "w", "x">>
Ord(c) == CHOOSE i \in DOMAIN CodePoints : CodePoints[i] = c

RECURSIVE Less(_, _)
Less(a, b) ==
    IF b = <<>> THEN FALSE
    ELSE IF a = <<>> THEN TRUE
    ELSE IF Head(a) = Head(b) THEN Less(Tail(a), Tail(b))
    ELSE Ord(Head(a)) < Ord(Head(b))

\* sorted(names)
RECURSIVE Sorted(_)
Sorted(names) ==
    IF names = {} THEN <<>>
    ELSE LET least == CHOOSE n \in names : \A o \in names \ {n} : Less(n, o)
         IN <<least>> \o Sorted(names \ {least})

\* sorted(audio_dir.glob("*.wav")), by name
AudioFiles(dir) == Sorted({n \in dir : EndsWith(n, S_WAV)})

\* Lines 44-53 for one audio file: the row written, or the warning.
MetadataRow(filename, mapping) ==
    IF filename \in DOMAIN mapping
    THEN LET transcript == Replace(Replace(mapping[filename], S_NL, S_SPACE), S_CR, S_SPACE)
         IN <<[filename |-> filename,
               written |-> filename \o S_PIPE \o Join(Words(transcript), S_SPACE) \o S_NL]>>
    ELSE <<>>

RECURSIVE MetadataRows(_, _)
MetadataRows(audio_files, mapping) ==
    IF audio_files = <<>> THEN <<>>
    ELSE MetadataRow(Head(audio_files), mapping) \o MetadataRows(Tail(audio_files), mapping)

\* The inputs of the bounded environment.
EntryA == [filename |-> <<"a", ".", "w", "a", "v">>, text |-> <<"H", "i", "\n", " ", " ", "x">>]
EntryA2 == [filename |-> <<"a", ".", "w", "a", "v">>, text |-> <<"z">>]
EntryB == [filename |-> <<"b", ".", "w", "a", "v">>, text |-> <<"y", "o", "|", "u", " ">>]
EntryBlank == [filename |-> <<"b", ".", "w", "a", "v">>, text |-> <<" ", "\n">>]
JsonInputs == {<<>>, <<EntryA>>, <<EntryB, EntryA>>, <<EntryA, EntryA2>>, <<EntryA, EntryBlank>>}
AudioNames == {<<"a", ".", "w", "a", "v">>, <<"b", ".", "w", "a", "v">>, <<"n", ".", "t", "x", "t">>}
RawInputs == {NoFile,
              File(<<"a", ".", "w", "a", "v", "|", "H", "i", ",", " ", "x", "!", "\n">>),
              File(<<"a", ".", "w", "a", "v", ".", "w", "a", "v", "|", "h", "#", "i", "\n", "n", "o", "p", "i", "p", "e", "\n">>),
              File(<<" ", "b", "|", "t", " ", "|", "u", "\n">>),
              File(<<"a", ".", "w", "a", "v", "|", "#", "\n">>)}
StaleOutputs == {NoFile, File(<<"o", "l", "d", "|", "o", "|", "o", "\n">>)}

ConverterIdle ==
    /\ entries = <<>>
    /\ audio_dir = {}
    /\ metadata_csv = NoFile
    /\ ljspeech_csv = NoFile
    /\ create_runs = 0
    /\ fix_runs = 0
    /\ fix_seen = NoFile
    /\ rows = <<>>
    /\ unmatched = {}

ConverterInit ==
    /\ entries \in JsonInputs
    /\ audio_dir \in SUBSET AudioNames
    /\ metadata_csv \in RawInputs
    /\ ljspeech_csv \in StaleOutputs
    /\ create_runs = 0
    /\ fix_runs = 0
    /\ fix_seen = NoFile
    /\ rows = <<>>
    /\ unmatched = {}

\* create_metadata_from_json(), lines 10-68
create_metadata_from_json ==
    /\ create_runs < MaxRuns
    /\ LET audio_files == AudioFiles(audio_dir)
           mapping == filename_to_text(entries)
       IN /\ metadata_csv' = File(OpenForWriting(metadata_csv.content)
                                  \o Written(MetadataRows(audio_files, mapping)))
          /\ unmatched' = {n \in Range(audio_files) : n \notin DOMAIN mapping}
    /\ create_runs' = create_runs + 1
    /\ UNCHANGED <<entries, audio_dir, ljspeech_csv, fix_runs, fix_seen, rows>>

\* fix_metadata.main(), lines 16-45, with metadata.csv present
fix_metadata_main ==
    /\ fix_runs < MaxRuns
    /\ metadata_csv.exists
    /\ rows' = ConvertLines(Split(metadata_csv.content, S_NL))
    /\ ljspeech_csv' = File(OpenForWriting(ljspeech_csv.content) \o Written(rows'))
    /\ fix_seen' = metadata_csv
    /\ fix_runs' = fix_runs + 1
    /\ UNCHANGED <<entries, audio_dir, metadata_csv, create_runs, unmatched>>

\* fix_metadata.main() without metadata.csv: open(input_file, 'r') raises
\* before the output is opened
fix_metadata_no_input ==
    /\ fix_runs < MaxRuns
    /\ ~metadata_csv.exists
    /\ rows' = <<>>
    /\ fix_seen' = metadata_csv
    /\ fix_runs' = fix_runs + 1
    /\ UNCHANGED <<entries, audio_dir, metadata_csv, ljspeech_csv, create_runs, unmatched>>

(***************************************************************************)
(* Audio Preprocessor: process_audio_files().  An amplitude is an integer  *)
(* number of thousandths of full scale; a sample of a written file is the  *)
(* 16-bit integer of the PCM_16 subtype.  The rounding of the float32      *)
(* arithmetic (relative error below 10^-6) never moves a peak sample       *)
(* across a 16-bit rounding boundary and is left out.                      *)
(***************************************************************************)
target_sample_rate == 22050
PEAK_MILLI == 707
FULL_SCALE == 1000
top_db == 20
PCM_16_MAX == 32767
PCM_16_MIN == -32768

\* The factor by which the writer of the sound file library scales a float
\* sample before rounding it: 0x7FFF in its plain conversion, 0x8000 in its
\* clipping conversion; which one a build uses is not fixed by the script.
PcmScales == {32767, 32768}

Abs(x) == IF x < 0 THEN -x ELSE x

\* np.abs(audio).max() of a non-empty array
RECURSIVE PeakOf(_)
PeakOf(audio) ==
    IF Len(audio) = 1 THEN Abs(audio[1])
    ELSE LET rest == PeakOf(Tail(audio))
         IN IF Abs(Head(audio)) > rest THEN Abs(Head(audio)) ELSE rest

\* librosa.resample, as far as the steps after it see it: the samples at the
\* new rate are those of the nearest old positions, and the filter's ringing
\* adds `ring` to the size of every sample that is not zero.
Resampled(audio, orig_sr, ring) ==
    LET n == (Len(audio) * target_sample_rate + orig_sr - 1) \div orig_sr
        at(i) == audio[((i - 1) * orig_sr) \div target_sample_rate + 1]
    IN [i \in 1..n |-> IF at(i) > 0 THEN at(i) + ring
                       ELSE IF at(i) < 0 THEN at(i) - ring ELSE 0]

\* librosa.effects.trim(audio, top_db=20) with frames of one sample: a sample
\* is not silent when it is less than top_db below the loudest one, that is
\* above a tenth of it; in an all-zero signal the floor of the dB scale makes
\* every sample 0 dB, so nothing is silent.
NonSilent(a, ref) == IF ref = 0 THEN TRUE ELSE 10 * Abs(a) > ref

Trimmed(audio) ==
    IF audio = <<>> THEN <<>>
    ELSE LET ref == PeakOf(audio)
             keep == {i \in DOMAIN audio : NonSilent(audio[i], ref)}
             first == CHOOSE i \in keep : \A j \in keep : i <= j
             last == CHOOSE i \in keep : \A j \in keep : j <= i
         IN IF keep = {} THEN <<>> ELSE SubSeq(audio, first, last)

\* A sample as a fraction num/den of full scale.
\* An array that is written without the normalization of lines 54-56.
Unnormalized(a, peak) == [num |-> a, den |-> FULL_SCALE]

\* Lines 55-56: audio * (0.707 / peak) when peak > 0.
Normalized(a, peak) ==
    IF peak > 0 THEN [num |-> a * PEAK_MILLI, den |-> peak * FULL_SCALE]
    ELSE [num |-> a, den |-> FULL_SCALE]

\* n * m = q * d + r with 0 <= r < d, for n, m >= 0 and d > 0, computed
\* without a product that leaves the 32-bit range
RECURSIVE MulDiv(_, _, _)
MulDiv(n, m, d) ==
    IF m = 0 THEN [q |-> 0, r |-> 0]
    ELSE LET h == MulDiv(n, m \div 2, d)
             q2 == 2 * h.q + (IF m % 2 = 1 THEN n \div d ELSE 0)
             r2 == 2 * h.r + (IF m % 2 = 1 THEN n % d ELSE 0)
         IN [q |-> q2 + r2 \div d, r |-> r2 % d]

\* lrint of q + r/d: to the nearest integer, a tie to the even one
RoundHalfEven(q, r, d) ==
    IF 2 * r > d \/ (2 * r = d /\ q % 2 = 1) THEN q + 1 ELSE q

\* sf.write(..., subtype='PCM_16'): a float sample is scaled, rounded and
\* clipped to the 16-bit range
Pcm16(x, scale) ==
    LET md == MulDiv(Abs(x.num), scale, x.den)
        size == RoundHalfEven(md.q, md.r, x.den)
        v == IF x.num < 0 THEN -size ELSE size
    IN IF v > PCM_16_MAX THEN PCM_16_MAX ELSE IF v < PCM_16_MIN THEN PCM_16_MIN ELSE v

\* except Exception (line 67) catches whatever a step raises
HandlerMisses(exc) == FALSE
HandlerCatches(exc) == TRUE

\* Lines 44-60 for one file: the exception raised, "none" if none, and the
\* file sf.write leaves, none if it was not reached.
Raise(exc) == [exc |-> exc, out |-> <<>>]

TryBlock(f, ring, partial, scale) ==
    IF f.fault = "load" THEN Raise("load")
    ELSE IF f.sr # target_sample_rate /\ f.fault = "resample" THEN Raise("resample")
    ELSE LET resampled == IF f.sr # target_sample_rate THEN Resampled(f.wave, f.sr, ring)
                          ELSE f.wave
             audio == Trimmed(resampled)
         IN IF audio = <<>> THEN Raise("ValueError")
            ELSE LET peak == PeakOf(audio)
                     samples == [i \in DOMAIN audio |-> Pcm16(Normalized(audio[i], peak), scale)]
                 IN IF f.fault = "write"
                    THEN [exc |-> "write",
                          out |-> IF partial
                                  THEN <<[sr |-> target_sample_rate,
                                          samples |-> SubSeq(samples, 1, Len(samples) - 1)]>>
                                  ELSE <<>>]
                    ELSE [exc |-> "none",
                          out |-> <<[sr |-> target_sample_rate, samples |-> samples]>>]

\* The waveforms of the bounded environment: silence, a quiet recording, one
\* that clips at full scale behind a quiet lead-in, a float file beyond full
\* scale, one already at the target peak, and a file without samples.
Waves == {<<0, 0, 0>>, <<0, 3, -2, 0>>, <<20, 1000, -1000, 50>>, <<1500, -200>>,
          <<707, -1>>, <<>>}

AudioInputs ==
    [wave : Waves, sr : {target_sample_rate, 16000}, fault : {"none"}]
    \cup [wave : {<<20, 1000, -1000, 50>>}, sr : {target_sample_rate}, fault : {"load", "write"}]
    \cup [wave : {<<20, 1000, -1000, 50>>}, sr : {44100}, fault : {"none", "resample"}]

RECURSIVE Batches(_)
Batches(n) ==
    IF n = 0 THEN {<<>>} ELSE {<<f>> \o b : f \in AudioInputs, b \in Batches(n - 1)}

PreprocessorIdle ==
    /\ raw_files = <<>>
    /\ processed = <<>>
    /\ completed = {}
    /\ errors = {}
    /\ ai = 0
    /\ apc = "idle"

\* Lines 20-37: the directory is made and the files are listed.
PreprocessorInit ==
    /\ raw_files \in UNION {Batches(n) : n \in 0..MaxFiles}
    /\ processed = <<>>
    /\ completed = {}
    /\ errors = {}
    /\ ai = 0
    /\ apc = "loop"

\* One pass of the for loop, lines 39-68.
ProcessFile(ring, partial, scale) ==
    /\ apc = "loop"
    /\ ai < Len(raw_files)
    /\ LET r == TryBlock(raw_files[ai + 1], ring, partial, scale)
       IN /\ processed' = IF r.out = <<>> THEN processed
                          ELSE ((ai + 1) :> r.out[1]) @@ processed
          /\ IF r.exc = "none"
             THEN /\ completed' = completed \cup {ai + 1}
                  /\ ai' = ai + 1
                  /\ UNCHANGED <<errors, apc>>
             ELSE IF HandlerCatches(r.exc)
             THEN /\ errors' = errors \cup {ai + 1}
                  /\ ai' = ai + 1
                  /\ UNCHANGED <<completed, apc>>
             ELSE /\ apc' = "raised"
                  /\ UNCHANGED <<completed, errors, ai>>
    /\ UNCHANGED raw_files

\* Lines 70-73: the summary; the average divides by len(audio_files).
Summary ==
    /\ apc = "loop"
    /\ ai = Len(raw_files)
    /\ apc' = IF Len(raw_files) = 0 THEN "raised" ELSE "done"
    /\ UNCHANGED <<raw_files, processed, completed, errors, ai>>

(***************************************************************************)
(* The data preparation pipeline, by counts: fix_metadata.main() reads     *)
(* metadata.csv, validate_data.main() reads metadata.csv and the directory *)
(* processed_audio, process_audio_files() fills processed_audio from       *)
(* raw_audio.  Every line of metadata.csv has a transcript and names a     *)
(* valid file of raw_audio.                                                *)
(***************************************************************************)
Absent == [exists |-> FALSE, count |-> 0]
Present(n) == [exists |-> TRUE, count |-> n]

\* validate_metadata: the file is there; pandas raises on a file without rows
\* and the handler returns False
MetadataValid(n) == n > 0

\* validate_audio_files: the directory exists and no row's file is missing
AudioValid(n, dir) == dir.exists /\ dir.count >= n

\* validate_data.main(), lines 172-203; its audio_dir (line 179) is
\* voice_data/processed_audio
ValidatorMain(n, dir) ==
    IF ~MetadataValid(n) THEN "not ready"
    ELSE IF ~AudioValid(n, dir) THEN "not ready"
    ELSE IF Len(IssuesOf(n, dir.count)) = 0 THEN "ready" ELSE "not ready"

PipelineIdle ==
    /\ pl_entries = 0
    /\ pl_raw = 0
    /\ pl_processed = Absent
    /\ pl_rows = Absent
    /\ pl_verdict = "unset"
    /\ pl_order = <<"idle">>

\* The data as recorded: n lines, n matching audio files, and processed_audio
\* either not made yet or left full by an earlier run of the preprocessor.
PipelineInit ==
    /\ pl_entries \in 0..MaxEntries
    /\ pl_raw = pl_entries
    /\ pl_processed \in {Absent, Present(pl_entries)}
    /\ pl_rows = Absent
    /\ pl_verdict = "unset"
    /\ pl_order = <<>>

\* fix_metadata.main(): one row per line of metadata.csv
RunConverter ==
    /\ "Converter" \notin Range(pl_order)
    /\ "idle" \notin Range(pl_order)
    /\ pl_rows' = Present(pl_entries)
    /\ pl_order' = Append(pl_order, "Converter")
    /\ UNCHANGED <<pl_entries, pl_raw, pl_processed, pl_verdict>>

\* validate_data.main()
RunValidator ==
    /\ "Validator" \notin Range(pl_order)
    /\ "idle" \notin Range(pl_order)
    /\ pl_verdict' = ValidatorMain(pl_entries, pl_processed)
    /\ pl_order' = Append(pl_order, "Validator")
    /\ UNCHANGED <<pl_entries, pl_raw, pl_processed, pl_rows>>

\* process_audio_files(): the directory is made and one file written per raw file
RunPreprocessor ==
    /\ "Preprocessor" \notin Range(pl_order)
    /\ "idle" \notin Range(pl_order)
    /\ pl_processed' = Present(pl_raw)
    /\ pl_order' = Append(pl_order, "Preprocessor")
    /\ UNCHANGED <<pl_entries, pl_raw, pl_rows, pl_verdict>>

(***************************************************************************)
(* Config Builder: the seven create_*_config functions.  Each builds a     *)
(* dict, makes directories (or not), and writes the dict with json.dump.   *)
(* Of the dict the model keeps the mandatory entries, in source order.     *)
(***************************************************************************)
Builders == {"train_model.create_training_config",
             "high_quality_training_plan.create_advanced_config",
             "arm_training.create_arm_config",
             "simple_direct_training.create_simple_config",
             "working_training.create_working_config",
             "quick_arm_setup.create_simple_training_config",
             "final_arm_setup.create_working_config"}

PROJECT_DIR == "/ssd/tts_project"

\* The dict `config` of a builder.
Config(model, sample_rate, batch_size, epochs, output_path) ==
    [model |-> model, audio |-> [sample_rate |-> sample_rate], batch_size |-> batch_size,
     epochs |-> epochs, output_path |-> output_path]

\* A dict that lacks the entry "epochs".
ConfigWithoutEpochs(b) ==
    [model |-> "tacotron2", audio |-> [sample_rate |-> 22050], batch_size |-> 8,
     output_path |-> "/ssd/tts_project/simple_training/"]

ConfigOf(b) ==
    CASE b = "train_model.create_training_config" ->
           Config("tacotron2_ddc", 22050, 32, 1000, "/ssd/tts_project/training_output")
      [] b = "high_quality_training_plan.create_advanced_config" ->
           Config("tacotron2", 22050, 24, 1000, "/ssd/tts_project/full_training_output/")
      [] b = "arm_training.create_arm_config" ->
           Config("tacotron2", 22050, 16, 1000, "/ssd/tts_project/arm_training_output/")
      [] b = "simple_direct_training.create_simple_config" ->
           Config("tacotron2", 22050, 8, 200, "/ssd/tts_project/simple_training/")
      [] b = "working_training.create_working_config" ->
           Config("tacotron2", 22050, 16, 500, "/ssd/tts_project/training_final/")
      [] b = "quick_arm_setup.create_simple_training_config" ->
           Config("tacotron2", 22050, 8, 500, "/ssd/tts_project/simple_arm_output/")
      [] b = "final_arm_setup.create_working_config" ->
           Config("tacotron2", 22050, 12, 800, "/ssd/tts_project/arm_final_output/")

\* The arguments of the os.makedirs(..., exist_ok=True) calls of a builder.
MakeDirs(b) ==
    CASE b = "train_model.create_training_config" ->
           {"/ssd/tts_project/training_output", "/ssd/tts_project/phoneme_cache"}
      [] b = "arm_training.create_arm_config" -> {"/ssd/tts_project/arm_training_output"}
      [] b = "simple_direct_training.create_simple_config" -> {"/ssd/tts_project/simple_training"}
      [] b = "quick_arm_setup.create_simple_training_config" ->
           {"/ssd/tts_project/simple_arm_output"}
      [] b = "final_arm_setup.create_working_config" -> {"/ssd/tts_project/arm_final_output"}
      [] OTHER -> {}

\* config_path
ConfigPath(b) ==
    CASE b = "train_model.create_training_config" -> "/ssd/tts_project/training_config.json"
      [] b = "high_quality_training_plan.create_advanced_config" ->
           "/ssd/tts_project/full_training_config.json"
      [] b = "arm_training.create_arm_config" -> "/ssd/tts_project/arm_config.json"
      [] b = "simple_direct_training.create_simple_config" -> "/ssd/tts_project/simple_config.json"
      [] b = "working_training.create_working_config" -> "/ssd/tts_project/working_config.json"
      [] b = "quick_arm_setup.create_simple_training_config" ->
           "/ssd/tts_project/simple_arm_config.json"
      [] b = "final_arm_setup.create_working_config" -> "/ssd/tts_project/arm_final_config.json"

\* The directory a path names: a trailing slash does not matter.
Directory(path) ==
    CASE path = "/ssd/tts_project/full_training_output/" -> "/ssd/tts_project/full_training_output"
      [] path = "/ssd/tts_project/arm_training_output/" -> "/ssd/tts_project/arm_training_output"
      [] path = "/ssd/tts_project/simple_training/" -> "/ssd/tts_project/simple_training"
      [] path = "/ssd/tts_project/training_final/" -> "/ssd/tts_project/training_final"
      [] path = "/ssd/tts_project/simple_arm_output/" -> "/ssd/tts_project/simple_arm_output"
      [] path = "/ssd/tts_project/arm_final_output/" -> "/ssd/tts_project/arm_final_output"
      [] OTHER -> path

\* json.dump(config, f): the tokens of the JSON text.  A token is a
\* punctuation mark, a key or a scalar.
Punct(p) == [kind |-> "punct", val |-> p]
Key(k) == [kind |-> "key", val |-> k]
Scalar(v) == [kind |-> "scalar", val |-> v]

KeyOrder == <<"model", "audio", "batch_size", "epochs", "output_path">>

RECURSIVE DumpMembers(_, _)
DumpMembers(keys, d) ==
    IF keys = <<>> THEN <<>>
    ELSE IF Head(keys) \notin DOMAIN d THEN DumpMembers(Tail(keys), d)
    ELSE LET k == Head(keys)
             value == IF k = "audio"
                      THEN <<Punct("{"), Key("sample_rate"), Punct(":"),
                             Scalar(d[k].sample_rate), Punct("}")>>
                      ELSE <<Scalar(d[k])>>
             rest == DumpMembers(Tail(keys), d)
         IN <<Key(k), Punct(":")>> \o value
            \o (IF rest = <<>> THEN <<>> ELSE <<Punct(",")>> \o rest)

JsonDump(d) == <<Punct("{")>> \o DumpMembers(KeyOrder, d) \o <<Punct("}")>>

\* json.load: whether the tokens are one JSON object, its keys, and the keys
\* of its values that are objects.
IsPunct(ts, p) == ts # <<>> /\ Head(ts).kind = "punct" /\ Head(ts).val = p
Failed == [ok |-> FALSE, rest |-> <<>>, keys |-> {}, nested |-> <<>>]

RECURSIVE ParseValue(_)
RECURSIVE ParseMembers(_, _, _)
ParseMembers(ts, keys, nested) ==
    IF Len(ts) < 3 \/ ts[1].kind # "key" \/ ~IsPunct(Tail(ts), ":") THEN Failed
    ELSE LET v == ParseValue(Tail(Tail(ts)))
             keys2 == keys \cup {ts[1].val}
             nested2 == (ts[1].val :> v.keys) @@ nested
         IN IF ~v.ok THEN Failed
            ELSE IF IsPunct(v.rest, ",") THEN ParseMembers(Tail(v.rest), keys2, nested2)
            ELSE IF IsPunct(v.rest, "}")
                 THEN [ok |-> TRUE, rest |-> Tail(v.rest), keys |-> keys2, nested |-> nested2]
            ELSE Failed

ParseValue(ts) ==
    IF ts = <<>> THEN Failed
    ELSE IF Head(ts).kind = "scalar"
         THEN [ok |-> TRUE, rest |-> Tail(ts), keys |-> {}, nested |-> <<>>]
    ELSE IF IsPunct(ts, "{")
         THEN IF IsPunct(Tail(ts), "}")
              THEN [ok |-> TRUE, rest |-> Tail(Tail(ts)), keys |-> {}, nested |-> <<>>]
              ELSE ParseMembers(Tail(ts), {}, <<>>)
    ELSE Failed

JsonLoad(ts) ==
    LET v == ParseValue(ts)
    IN IF v.ok /\ v.rest = <<>> /\ IsPunct(ts, "{") THEN v ELSE Failed

\* The value of a top-level key of a parseable object.
ValueOf(ts, k) ==
    LET i == CHOOSE j \in 1..Len(ts) : ts[j].kind = "key" /\ ts[j].val = k
    IN ts[i + 2].val

BuilderIdle ==
    /\ cb_dirs = {}
    /\ cb_files = <<>>
    /\ cb_last = "none"
    /\ cb_ret = "none"
    /\ cb_runs = 0

\* The project directory may not exist, and output directories may be left
\* from earlier work.
BuilderInit ==
    /\ cb_dirs \in {{}} \cup {{PROJECT_DIR} \cup d :
                               d \in SUBSET {"/ssd/tts_project/training_final",
                                             "/ssd/tts_project/arm_training_output"}}
    /\ cb_files = <<>>
    /\ cb_last = "none"
    /\ cb_ret = "none"
    /\ cb_runs = 0

\* One call of a builder.  fault: "none", "makedirs" (os.makedirs raises) or
\* "write" (the write of the JSON text raises half way).
Build(b, fault) ==
    /\ cb_runs < MaxBuilds
    /\ cb_runs' = cb_runs + 1
    /\ cb_last' = b
    /\ LET made == IF MakeDirs(b) = {} THEN {} ELSE MakeDirs(b) \cup {PROJECT_DIR}
           text == JsonDump(ConfigOf(b))
       IN IF made # {} /\ fault = "makedirs"
          THEN /\ cb_ret' = "raised"
               /\ UNCHANGED <<cb_dirs, cb_files>>
          ELSE /\ cb_dirs' = cb_dirs \cup made
               /\ IF PROJECT_DIR \notin cb_dirs'
                  THEN /\ cb_ret' = "raised"
                       /\ UNCHANGED cb_files
                  ELSE IF fault = "write"
                  THEN /\ cb_ret' = "raised"
                       /\ cb_files' = (ConfigPath(b) :> SubSeq(text, 1, Len(text) \div 2))
                                      @@ cb_files
                  ELSE /\ cb_ret' = "returned"
                       /\ cb_files' = (ConfigPath(b) :> text) @@ cb_files

(***************************************************************************)
(* Data splits: create_data_splits of high_quality_training_plan.py.  A    *)
(* row of metadata.csv is named by its line number.                        *)
(***************************************************************************)
train_size == 70
val_size == 10
random_state == 42

\* The generator df.sample draws from: seeded with random_state.
Seeded(seed, state) == seed

\* df.sample(frac=1, random_state=...).reset_index(drop=True): a permutation of
\* the n rows that the generator's seed determines.
Shuffled(n, seed) == [i \in 1..n |-> ((i - 1 + seed) % n) + 1]

\* df[a:b] on positions a..b-1, counted from 0: a slice never raises and ends
\* where the frame ends.
Slice(df, a, b) ==
    LET lo == IF a < Len(df) THEN a ELSE Len(df)
        hi == IF b < Len(df) THEN b ELSE Len(df)
    IN SubSeq(df, lo + 1, hi)

SplitIdle ==
    /\ sp_n = 0
    /\ sp_state = 0
    /\ sp_train = <<>>
    /\ sp_val = <<>>
    /\ sp_prev = <<>>
    /\ sp_runs = 0
    /\ sp_pc = "idle"

SplitInit ==
    /\ sp_n \in 0..MaxMeta
    /\ sp_state \in {0, 1}
    /\ sp_train = <<>>
    /\ sp_val = <<>>
    /\ sp_prev = <<>>
    /\ sp_runs = 0
    /\ sp_pc = "ready"

\* One call.  pd.read_csv raises EmptyDataError on a file without rows.
create_data_splits ==
    /\ sp_pc \in {"ready", "done"}
    /\ sp_runs < MaxSplits
    /\ sp_runs' = sp_runs + 1
    /\ sp_state' = sp_state + 1
    /\ IF sp_n = 0
       THEN /\ sp_pc' = "raised"
            /\ UNCHANGED <<sp_train, sp_val, sp_prev>>
       ELSE LET df_shuffled == Shuffled(sp_n, Seeded(random_state, sp_state))
            IN /\ sp_train' = Slice(df_shuffled, 0, train_size)
               /\ sp_val' = Slice(df_shuffled, train_size, train_size + val_size)
               /\ sp_prev' = IF sp_pc = "done" THEN <<sp_train, sp_val>> ELSE <<>>
               /\ sp_pc' = "done"
    /\ UNCHANGED sp_n

(***************************************************************************)
(* Interactive Inference Drivers: main() of synthesize_text_mac.py with    *)
(* its class TTSSynthesizer, interactive_testing() of test_model.py and    *)
(* interactive_voice_clone() of voice_clone.py.  "TTSSynthesizer" is a     *)
(* caller of the class that goes on whatever load_model() returned.        *)
(***************************************************************************)
InteractiveDrivers == {"synthesize_text_mac", "TTSSynthesizer", "interactive_testing",
                       "interactive_voice_clone"}

\* The drivers that name their output files with a counter.
Counting == {"interactive_testing", "interactive_voice_clone"}

\* A synthesize() that does not test for the session.
NeverMissing(loaded) == FALSE

\* synthesize_text_mac.py 43: `if not self.synthesizer`.
SessionMissing(loaded) == ~loaded

\* A loop that counts every attempt.
CounterAfterAttempt(c, reached) == c + 1

\* `counter += 1` is the last statement of the try block (test_model.py 165,
\* voice_clone.py 181): it is reached only when nothing raised before it.
CounterAfter(c, reached) == IF reached THEN c + 1 ELSE c

\* Whether an exception of the playback leaves the try block before
\* `counter += 1`.  play_audio_sample catches Exception (test_model.py 119-128),
\* so a KeyboardInterrupt passes through it and through the loop's
\* `except Exception`; voice_clone.py 175-179 catches everything.
PlaybackEscapes(d, play) == d = "interactive_testing" /\ play = "interrupt"

InteractiveIdle ==
    /\ iv_driver = "none"
    /\ iv_pc = "idle"
    /\ iv_sessions = 0
    /\ iv_loaded = FALSE
    /\ counter = 0
    /\ iv_inputs = 0
    /\ iv_files = <<>>
    /\ iv_reported = <<>>
    /\ iv_attempts = 0
    /\ iv_successes = 0
    /\ iv_result = "unset"

InteractiveInit ==
    /\ iv_driver \in InteractiveDrivers
    /\ iv_pc = "start"
    /\ iv_sessions = 0
    /\ iv_loaded = FALSE
    /\ counter = 0
    /\ iv_inputs = 0
    /\ iv_files = <<>>
    /\ iv_reported = <<>>
    /\ iv_attempts = 0
    /\ iv_successes = 0
    /\ iv_result = "unset"

\* The session is constructed: test_model.py 137, voice_clone.py 73 (setup_xtts,
\* called once by main at 205), synthesize_text_mac.py 30 (load_model, called
\* once by main at 85).  A driver returns when that fails; the caller of the
\* class goes on.
InteractiveLoad(loadOk) ==
    /\ iv_pc = "start"
    /\ iv_loaded' = loadOk
    /\ iv_sessions' = IF loadOk THEN iv_sessions + 1 ELSE iv_sessions
    /\ iv_pc' = IF loadOk \/ iv_driver = "TTSSynthesizer" THEN "loop" ELSE "done"
    /\ counter' = IF iv_driver \in Counting /\ loadOk THEN 1 ELSE counter
    /\ UNCHANGED <<iv_driver, iv_inputs, iv_files, iv_reported, iv_attempts, iv_successes,
                   iv_result>>

\* input() returns 'quit', 'exit' or 'q': the loop ends.
InteractiveQuit ==
    /\ iv_pc = "loop"
    /\ iv_pc' = "done"
    /\ UNCHANGED <<iv_driver, iv_sessions, iv_loaded, counter, iv_inputs, iv_files,
                   iv_reported, iv_attempts, iv_successes, iv_result>>

\* input() returns an empty text: `continue`.
InteractiveEmpty ==
    /\ iv_pc = "loop"
    /\ iv_inputs < MaxInputs
    /\ iv_inputs' = iv_inputs + 1
    /\ UNCHANGED <<iv_driver, iv_pc, iv_sessions, iv_loaded, counter, iv_files, iv_reported,
                   iv_attempts, iv_successes, iv_result>>

\* input() raises KeyboardInterrupt: synthesize_text_mac.py 108-110 ends the
\* loop; the other loops have no handler for it.
InteractiveInterrupt ==
    /\ iv_pc = "loop"
    /\ iv_pc' = IF iv_driver = "synthesize_text_mac" THEN "done" ELSE "died"
    /\ UNCHANGED <<iv_driver, iv_sessions, iv_loaded, counter, iv_inputs, iv_files,
                   iv_reported, iv_attempts, iv_successes, iv_result>>

\* One text in a counting loop (test_model.py 155-168, voice_clone.py 161-184):
\* the synthesis writes interactive_<counter>.wav or raises; then the report,
\* the playback and `counter += 1`.
InteractiveText(ok, play) ==
    /\ iv_pc = "loop"
    /\ iv_driver \in Counting
    /\ iv_inputs < MaxInputs
    /\ iv_inputs' = iv_inputs + 1
    /\ iv_attempts' = iv_attempts + 1
    /\ IF ok
       THEN /\ iv_files' = (counter :> iv_inputs') @@ iv_files
            /\ iv_reported' = Append(iv_reported, [n |-> counter, input |-> iv_inputs'])
            /\ iv_successes' = iv_successes + 1
            /\ counter' = CounterAfter(counter, ~PlaybackEscapes(iv_driver, play))
            /\ iv_pc' = IF PlaybackEscapes(iv_driver, play) THEN "died" ELSE iv_pc
       ELSE /\ counter' = CounterAfter(counter, FALSE)
            /\ UNCHANGED <<iv_files, iv_reported, iv_successes, iv_pc>>
    /\ UNCHANGED <<iv_driver, iv_sessions, iv_loaded, iv_result>>

\* TTSSynthesizer.synthesize(text) (synthesize_text_mac.py 41-76): False at once
\* without a session; else the synthesis, the file named after the text, True;
\* False when the synthesis raised.  Calling tts() on None raises as well.
Synthesize(text, ok) ==
    /\ iv_pc = "loop"
    /\ iv_driver \notin Counting
    /\ iv_inputs < MaxInputs
    /\ iv_inputs' = iv_inputs + 1
    /\ IF SessionMissing(iv_loaded)
       THEN /\ iv_result' = "False"
            /\ UNCHANGED <<iv_files, iv_attempts, iv_successes>>
       ELSE /\ iv_attempts' = iv_attempts + 1
            /\ IF ok /\ iv_loaded
               THEN /\ iv_files' = (text :> iv_inputs') @@ iv_files
                    /\ iv_successes' = iv_successes + 1
                    /\ iv_result' = "True"
               ELSE /\ iv_result' = "False"
                    /\ UNCHANGED <<iv_files, iv_successes>>
    /\ UNCHANGED <<iv_driver, iv_pc, iv_sessions, iv_loaded, counter, iv_reported>>

(***************************************************************************)
(* The specifications, one per component: the component's own variables    *)
(* move, the variables of the other components keep their idle values.     *)
(***************************************************************************)
NotValidator == <<launcherVars, synthVars, parseVars, monitorVars, converterVars, preprocessorVars, pipelineVars, builderVars, splitVars, interactiveVars>>

ValidatorNext ==
    \/ UNCHANGED NotValidator /\ validate_training_readiness

InitValidator ==
    /\ ValidatorInit
    /\ LauncherIdle
    /\ SynthIdle
    /\ ParseIdle
    /\ MonitorIdle
    /\ ConverterIdle
    /\ PreprocessorIdle
    /\ PipelineIdle
    /\ BuilderIdle
    /\ SplitIdle
    /\ InteractiveIdle

SpecValidator == InitValidator /\ [][ValidatorNext]_vars

NotLauncher == <<validatorVars, synthVars, parseVars, monitorVars, converterVars, preprocessorVars, pipelineVars, builderVars, splitVars, interactiveVars>>

LauncherNext ==
    \/ UNCHANGED NotLauncher /\ \E envOk \in BOOLEAN, tbOk \in BOOLEAN : MainBegin(envOk, tbOk)
    \/ UNCHANGED NotLauncher /\ \E yes \in BOOLEAN, found \in BOOLEAN : Confirm(yes, found)
    \/ UNCHANGED NotLauncher /\ Launch
    \/ UNCHANGED NotLauncher /\ LaunchFails
    \/ UNCHANGED NotLauncher /\ ReadLine
    \/ UNCHANGED NotLauncher /\ LogWriteFails
    \/ UNCHANGED NotLauncher /\ EndOfStream
    \/ UNCHANGED NotLauncher /\ Wait
    \/ UNCHANGED NotLauncher /\ Interrupt
    \/ UNCHANGED NotLauncher /\ MainExit
    \/ UNCHANGED NotLauncher /\ \E ok \in BOOLEAN : TrainInProcess(ok)
    \/ UNCHANGED NotLauncher /\ ChildEmit
    \/ UNCHANGED NotLauncher /\ \E code \in {0, 1} : ChildExit(code)

InitLauncher ==
    /\ LauncherInit
    /\ ValidatorIdle
    /\ SynthIdle
    /\ ParseIdle
    /\ MonitorIdle
    /\ ConverterIdle
    /\ PreprocessorIdle
    /\ PipelineIdle
    /\ BuilderIdle
    /\ SplitIdle
    /\ InteractiveIdle

SpecLauncher == InitLauncher /\ [][LauncherNext]_vars

NotSynth == <<validatorVars, launcherVars, parseVars, monitorVars, converterVars, preprocessorVars, pipelineVars, builderVars, splitVars, interactiveVars>>

SynthNext ==
    \/ UNCHANGED NotSynth /\ \E filesOk \in BOOLEAN, loadOk \in BOOLEAN : SynthLoad(filesOk, loadOk)
    \/ UNCHANGED NotSynth /\ \E ok \in BOOLEAN : SynthText(ok)
    \/ UNCHANGED NotSynth /\ SynthFinish
    \/ UNCHANGED NotSynth /\ SynthExit

InitSynth ==
    /\ SynthInit
    /\ ValidatorIdle
    /\ LauncherIdle
    /\ ParseIdle
    /\ MonitorIdle
    /\ ConverterIdle
    /\ PreprocessorIdle
    /\ PipelineIdle
    /\ BuilderIdle
    /\ SplitIdle
    /\ InteractiveIdle

SpecSynth == InitSynth /\ [][SynthNext]_vars

NotParse == <<validatorVars, launcherVars, synthVars, monitorVars, converterVars, preprocessorVars, pipelineVars, builderVars, splitVars, interactiveVars>>

ParseNext ==
    \/ UNCHANGED NotParse /\ parse_training_metrics

InitParse ==
    /\ ParseInit
    /\ ValidatorIdle
    /\ LauncherIdle
    /\ SynthIdle
    /\ MonitorIdle
    /\ ConverterIdle
    /\ PreprocessorIdle
    /\ PipelineIdle
    /\ BuilderIdle
    /\ SplitIdle
    /\ InteractiveIdle

SpecParse == InitParse /\ [][ParseNext]_vars

NotMonitor == <<validatorVars, launcherVars, synthVars, parseVars, converterVars, preprocessorVars, pipelineVars, builderVars, splitVars, interactiveVars>>

MonitorNext ==
    \/ UNCHANGED NotMonitor /\ \E psOk \in BOOLEAN, stdout \in PsOutputs(trainer) : Refresh(psOk, stdout)
    \/ UNCHANGED NotMonitor /\ MonitorInterrupt
    \/ UNCHANGED NotMonitor /\ TrainerStarts
    \/ UNCHANGED NotMonitor /\ TrainerExits
    \/ UNCHANGED NotMonitor /\ \E name \in LiveLogs, line \in TrainerLines : TrainerWrites(name, line)

InitMonitor ==
    /\ MonitorInit
    /\ ValidatorIdle
    /\ LauncherIdle
    /\ SynthIdle
    /\ ParseIdle
    /\ ConverterIdle
    /\ PreprocessorIdle
    /\ PipelineIdle
    /\ BuilderIdle
    /\ SplitIdle
    /\ InteractiveIdle

SpecMonitor == InitMonitor /\ [][MonitorNext]_vars

NotConverter == <<validatorVars, launcherVars, synthVars, parseVars, monitorVars, preprocessorVars, pipelineVars, builderVars, splitVars, interactiveVars>>

ConverterNext ==
    \/ UNCHANGED NotConverter /\ create_metadata_from_json
    \/ UNCHANGED NotConverter /\ fix_metadata_main
    \/ UNCHANGED NotConverter /\ fix_metadata_no_input

InitConverter ==
    /\ ConverterInit
    /\ ValidatorIdle
    /\ LauncherIdle
    /\ SynthIdle
    /\ ParseIdle
    /\ MonitorIdle
    /\ PreprocessorIdle
    /\ PipelineIdle
    /\ BuilderIdle
    /\ SplitIdle
    /\ InteractiveIdle

SpecConverter == InitConverter /\ [][ConverterNext]_vars

NotPreprocessor == <<validatorVars, launcherVars, synthVars, parseVars, monitorVars, converterVars, pipelineVars, builderVars, splitVars, interactiveVars>>

PreprocessorNext ==
    \/ UNCHANGED NotPreprocessor /\ \E ring \in {0, 40}, partial \in BOOLEAN, scale \in PcmScales : ProcessFile(ring, partial, scale)
    \/ UNCHANGED NotPreprocessor /\ Summary

InitPreprocessor ==
    /\ PreprocessorInit
    /\ ValidatorIdle
    /\ LauncherIdle
    /\ SynthIdle
    /\ ParseIdle
    /\ MonitorIdle
    /\ ConverterIdle
    /\ PipelineIdle
    /\ BuilderIdle
    /\ SplitIdle
    /\ InteractiveIdle

SpecPreprocessor == InitPreprocessor /\ [][PreprocessorNext]_vars

NotPipeline == <<validatorVars, launcherVars, synthVars, parseVars, monitorVars, converterVars, preprocessorVars, builderVars, splitVars, interactiveVars>>

PipelineNext ==
    \/ UNCHANGED NotPipeline /\ RunConverter
    \/ UNCHANGED NotPipeline /\ RunValidator
    \/ UNCHANGED NotPipeline /\ RunPreprocessor

InitPipeline ==
    /\ PipelineInit
    /\ ValidatorIdle
    /\ LauncherIdle
    /\ SynthIdle
    /\ ParseIdle
    /\ MonitorIdle
    /\ ConverterIdle
    /\ PreprocessorIdle
    /\ BuilderIdle
    /\ SplitIdle
    /\ InteractiveIdle

SpecPipeline == InitPipeline /\ [][PipelineNext]_vars

NotBuilder == <<validatorVars, launcherVars, synthVars, parseVars, monitorVars, converterVars, preprocessorVars, pipelineVars, splitVars, interactiveVars>>

BuilderNext ==
    \/ UNCHANGED NotBuilder /\ \E b \in Builders, fault \in {"none", "makedirs", "write"} : Build(b, fault)

InitBuilder ==
    /\ BuilderInit
    /\ ValidatorIdle
    /\ LauncherIdle
    /\ SynthIdle
    /\ ParseIdle
    /\ MonitorIdle
    /\ ConverterIdle
    /\ PreprocessorIdle
    /\ PipelineIdle
    /\ SplitIdle
    /\ InteractiveIdle

SpecBuilder == InitBuilder /\ [][BuilderNext]_vars

NotSplit == <<validatorVars, launcherVars, synthVars, parseVars, monitorVars, converterVars, preprocessorVars, pipelineVars, builderVars, interactiveVars>>

SplitNext ==
    \/ UNCHANGED NotSplit /\ create_data_splits

InitSplit ==
    /\ SplitInit
    /\ ValidatorIdle
    /\ LauncherIdle
    /\ SynthIdle
    /\ ParseIdle
    /\ MonitorIdle
    /\ ConverterIdle
    /\ PreprocessorIdle
    /\ PipelineIdle
    /\ BuilderIdle
    /\ InteractiveIdle

SpecSplit == InitSplit /\ [][SplitNext]_vars

NotInteractive == <<validatorVars, launcherVars, synthVars, parseVars, monitorVars, converterVars, preprocessorVars, pipelineVars, builderVars, splitVars>>

InteractiveNext ==
    \/ UNCHANGED NotInteractive /\ \E loadOk \in BOOLEAN : InteractiveLoad(loadOk)
    \/ UNCHANGED NotInteractive /\ InteractiveQuit
    \/ UNCHANGED NotInteractive /\ InteractiveEmpty
    \/ UNCHANGED NotInteractive /\ InteractiveInterrupt
    \/ UNCHANGED NotInteractive /\ \E ok \in BOOLEAN, play \in {"ok", "fails", "interrupt"} : InteractiveText(ok, play)
    \/ UNCHANGED NotInteractive /\ \E text \in {"hello", "bye"}, ok \in BOOLEAN : Synthesize(text, ok)

InitInteractive ==
    /\ InteractiveInit
    /\ ValidatorIdle
    /\ LauncherIdle
    /\ SynthIdle
    /\ ParseIdle
    /\ MonitorIdle
    /\ ConverterIdle
    /\ PreprocessorIdle
    /\ PipelineIdle
    /\ BuilderIdle
    /\ SplitIdle

SpecInteractive == InitInteractive /\ [][InteractiveNext]_vars

(***************************************************************************)
(* The claims.                                                             *)
(***************************************************************************)
\* C1: for every row count n the data volume is classified 'insufficient'
\* (an issue, verdict not ready) when n < 50, 'limited' (a warning, no volume
\* issue) when 50 <= n <= 99, and a clean pass (no volume issue, no volume
\* warning) when n >= 100.
C1_VolumeClassification ==
    vpc = "done" =>
        /\ df_len < 50 =>
              /\ "Insufficient data" \in Range(issues)
              /\ "Limited data" \notin Range(warnings)
              /\ ~ready
              /\ "NOT READY" \in Range(printed)
        /\ (df_len >= 50 /\ df_len <= 99) =>
              /\ "Limited data" \in Range(warnings)
              /\ "Insufficient data" \notin Range(issues)
        /\ df_len >= 100 =>
              /\ "Insufficient data" \notin Range(issues)
              /\ "Limited data" \notin Range(warnings)
              /\ "Good data volume" \in Range(printed)

C1_Witness ==
    /\ vpc = "done"
    /\ df_len = 99
    /\ audio_files_len = 99
    /\ warnings = <<"Limited data">>
    /\ ready

\* C2: whenever the number of metadata rows differs from the number of *.wav
\* files, validate_training_readiness returns False, whatever the sample
\* count and the duplicate transcripts are.
C2_MismatchNotReady ==
    (vpc = "done" /\ df_len # audio_files_len) =>
        /\ ~ready
        /\ "Mismatch" \in Range(issues)

C2_Witness ==
    /\ vpc = "done"
    /\ df_len = 100
    /\ audio_files_len = 101
    /\ dup_len = 0
    /\ issues = <<"Mismatch">>
    /\ ~ready

\* C3 (as claimed): a launcher function reports success if and only if the
\* trainer child it started has exited with exit code zero, judged at the
\* moment the function returns.
C3_SuccessIffExitZero ==
    [][(lpc # "returned" /\ lpc' = "returned") =>
          ((success' = "True") <=> (child' = "exited" /\ returncode' = 0))]_vars

\* C3 (amended): a launcher function reports success only if the trainer child
\* it started has exited with exit code zero (never while the child runs, never
\* after a non-zero exit, never without a child); and a launcher that reaches
\* its return-code check without an interrupt reports success exactly when
\* that code is zero.
C3_SuccessOnlyIfExitZero ==
    [][(lpc # "returned" /\ lpc' = "returned") =>
          /\ (success' = "True") =>
                /\ "trainer" \in Range(spawned')
                /\ child' = "exited"
                /\ returncode' = 0
          /\ (lpc \in {"wait", "run"} /\ ~interrupted') =>
                ((success' = "True") <=> (child' = "exited" /\ returncode' = 0))]_vars

C3_Witness ==
    /\ script = "auto_start_training"
    /\ lpc = "returned"
    /\ success = "True"
    /\ child = "exited"
    /\ returncode = 0
    /\ log = <<1, 2>>
    /\ ~interrupted

\* C4: when a KeyboardInterrupt arrives while a launcher is streaming the
\* child's output, the launcher terminates the child: there is no state in
\* which the launcher has finished handling the interrupt and the child it
\* started is still running.
C4_InterruptTerminatesChild ==
    (interrupted /\ lpc \in {"returned", "exited"} /\ "trainer" \in Range(spawned))
        => child # "running"

\* C5: when an operator interrupt cancels a training run, the launcher script
\* exits with a non-zero exit status, for every launcher script and wherever
\* in the run the interrupt arrives.
C5_InterruptExitsNonZero ==
    (interrupted /\ lpc = "exited") => exit_status # 0

\* C6: in the multi-text synthesis of test_model_synthesis, test_model and
\* batch_synthesize, if synthesising text number i fails, the failure is caught
\* and logged and every later text i+1..n is still attempted.
C6_FailureDoesNotStopLaterTexts ==
    spc = "done" =>
        \A i \in attempted \ saved :
            /\ i \in logged
            /\ \A j \in (i + 1)..texts : j \in attempted

\* C7: parse_training_metrics returns a metrics mapping without raising for
\* every log text, and each of epoch, step, total_steps, loss, lr and step_time
\* for which no value could be parsed holds the placeholder 'N/A': a field
\* never holds an empty text in place of a value.
C7_PlaceholderWhenNoValue ==
    /\ ppc # "raised"
    /\ ppc = "done" =>
          \A k \in {"epoch", "step", "total_steps", "loss", "lr", "step_time"} :
              metrics[k] = NA \/ Words(metrics[k]) # <<>>

\* C8: the refresh loop of the Training Monitor ends only when the operator
\* cancels it, whatever the state of the trainer and of the log files, and a
\* refresh that finds no trainer process reports it as not detected.
C8_LoopEndsOnlyOnCancel ==
    /\ mpc \in {"stopped", "crashed"} => minterrupted
    /\ (refreshes > 0 /\ shown.active = 0) => shown.status = "NOT DETECTED"

\* C9: running a Metadata Converter again on the same raw input and the same
\* audio directory leaves its output file with exactly the bytes the previous
\* run left: a later run of fix_metadata.main that finds metadata.csv as its
\* last run found it, and a later run of create_metadata_from_json, do not
\* change the file they write.
C9_SecondRunSameBytes ==
    [][/\ (fix_runs' = fix_runs + 1 /\ fix_runs >= 1 /\ metadata_csv = fix_seen)
            => ljspeech_csv' = ljspeech_csv
       /\ (create_runs' = create_runs + 1 /\ create_runs >= 1)
            => metadata_csv' = metadata_csv]_vars

\* C9 witness: both converters have run twice on the same input and both
\* output files hold rows.
C9_Witness ==
    /\ create_runs >= 2
    /\ fix_runs >= 2
    /\ metadata_csv = fix_seen
    /\ metadata_csv.content # <<>>
    /\ ljspeech_csv.content # <<>>
    /\ rows # <<>>

\* C10: every row fix_metadata.main writes for an input filename ending in
\* '.wav' has an identifier that, with '.wav' appended, is that filename.
C10_IdentifierRoundTrip ==
    \A i \in DOMAIN rows :
        EndsWith(rows[i].filename, S_WAV)
            => Split(rows[i].written, S_PIPE)[1] \o S_WAV = rows[i].filename

\* C11: an entry whose audio file is not in the audio directory gets no
\* output row and a warning, and the run goes on: after a run of
\* create_metadata_from_json every such entry of training.json is among the
\* names warned about and has no row in metadata.csv, and every row the last
\* run of fix_metadata.main wrote is for a file of the audio directory.
C11_MissingAudioSkippedWithWarning ==
    /\ create_runs >= 1 =>
         \A i \in DOMAIN entries :
             entries[i].filename \notin audio_dir =>
                 /\ entries[i].filename \in unmatched
                 /\ \A line \in Range(Split(metadata_csv.content, S_NL)) :
                        ~StartsWith(line, entries[i].filename \o S_PIPE)
    /\ fix_runs >= 1 => \A i \in DOMAIN rows : rows[i].filename \in audio_dir

\* C12: every row fix_metadata.main writes has three fields, the second the
\* transcript of the input row unchanged and the third its normalized form.
C12_OriginalThenNormalized ==
    \A i \in DOMAIN rows :
        LET fields == Split(SubSeq(rows[i].written, 1, Len(rows[i].written) - 1), S_PIPE)
        IN /\ Len(fields) = 3
           /\ fields[2] = rows[i].text
           /\ fields[3] = clean_and_normalize_text(rows[i].text)

\* C13: every row a converter writes has a non-empty transcript: the rows of
\* the last run of fix_metadata.main, and the lines of metadata.csv after a
\* run of create_metadata_from_json.
C13_TranscriptNonEmpty ==
    /\ \A i \in DOMAIN rows :
           SplitOnce(SubSeq(rows[i].written, 1, Len(rows[i].written) - 1), S_PIPE)[2]
               \notin {<<>>, S_PIPE}
    /\ create_runs >= 1 =>
           \A line \in Range(Split(metadata_csv.content, S_NL)) :
               line # <<>> => SplitOnce(line, S_PIPE)[2] # <<>>

\* C14: when a step of processing one audio file raises, the error is logged,
\* the file is not among the completed ones, and every later file of the
\* batch is still processed (completed or logged in its turn).
C14_FailureIsolated ==
    apc \in {"done", "raised"} =>
        \A i \in 1..Len(raw_files) :
            ~(i \in completed) =>
                /\ i \in errors
                /\ \A j \in (i + 1)..Len(raw_files) : j \in completed \cup errors

\* C14 witness: the batch is over, a file failed and a later file completed.
C14_Witness ==
    /\ apc = "done"
    /\ \E i \in errors : \E j \in completed : i < j

\* C15 as stated: every file process_audio_files writes has the sample rate
\* 22050 Hz and a peak, read back against the 2^15 full scale, at or below
\* 0.707.
C15_RateAndPeakCeiling ==
    \A i \in DOMAIN processed :
        /\ processed[i].sr = 22050
        /\ \A k \in DOMAIN processed[i].samples :
               Abs(processed[i].samples[k]) * 1000 <= 707 * 32768

\* C15 amended: every file process_audio_files writes has the sample rate
\* 22050 Hz and a peak at or below 0.707 plus one step of the 16-bit scale
\* (2^-15), the rounding of sf.write.
C15_RateAndPeakCeilingRounded ==
    \A i \in DOMAIN processed :
        /\ processed[i].sr = 22050
        /\ \A k \in DOMAIN processed[i].samples :
               Abs(processed[i].samples[k]) * 1000 <= 707 * 32768 + 1000

\* C15 witness: the batch is over and it wrote a file for a silence-only input
\* (peak 0) and one for an input that clips at full scale or beyond.
C15_Witness ==
    /\ apc = "done"
    /\ \E i \in completed :
           /\ raw_files[i].wave # <<>>
           /\ PeakOf(raw_files[i].wave) = 0
           /\ PeakOf(processed[i].samples) = 0
    /\ \E i \in completed :
           /\ raw_files[i].wave # <<>>
           /\ PeakOf(raw_files[i].wave) >= 1000
           /\ PeakOf(processed[i].samples) > 23000

\* C16: from a metadata file of 80 filename|text lines and 80 matching audio
\* files, the run Converter, Validator, Preprocessor ends with the verdict
\* ready, 80 normalized rows and 80 processed audio files.
C16_PipelineOfEighty ==
    (pl_entries = 80 /\ pl_raw = 80
     /\ pl_order = <<"Converter", "Validator", "Preprocessor">>)
        => /\ pl_verdict = "ready"
           /\ pl_rows = Present(80)
           /\ pl_processed = Present(80)

\* C17: the file a Config Builder has written when it returns is a parseable
\* JSON object with the keys model, output_path, batch_size, epochs and
\* audio.sample_rate.
C17_ParseableWithMandatoryKeys ==
    cb_ret = "returned" =>
        /\ ConfigPath(cb_last) \in DOMAIN cb_files
        /\ LET doc == JsonLoad(cb_files[ConfigPath(cb_last)])
           IN /\ doc.ok
              /\ {"model", "output_path", "batch_size", "epochs", "audio"} \subseteq doc.keys
              /\ "sample_rate" \in doc.nested["audio"]

\* C17 witness: each of the seven builders can be the one that returned.
C17_Witness ==
    /\ cb_ret = "returned"
    /\ cb_runs = 2
    /\ cb_last = "quick_arm_setup.create_simple_training_config"
    /\ JsonLoad(cb_files[ConfigPath(cb_last)]).ok
    /\ \E p \in DOMAIN cb_files : p # ConfigPath(cb_last) /\ ~JsonLoad(cb_files[p]).ok

\* C18: when a Config Builder returns, the directory that the written
\* configuration names as output_path exists.
C18_OutputDirectoryExists ==
    cb_ret = "returned" =>
        Directory(ValueOf(cb_files[ConfigPath(cb_last)], "output_path")) \in cb_dirs

\* C19: the Training Launcher only appends to its log file: no step of a
\* launch, a re-launch over the log of an earlier run included, removes or
\* rewrites a line that was already in the log.
C19_LogAppendOnly ==
    [][/\ Len(log') >= Len(log)
       /\ SubSeq(log', 1, Len(log)) = log]_vars

\* C20: one invocation of a Training Launcher script starts no process but
\* the trainer, starts it once when it has a child, and kills no other process.
C20_ExactlyOneChild ==
    /\ ~pkilled
    /\ Len(spawned) <= 1
    /\ \A i \in DOMAIN spawned : spawned[i] = "trainer"
    /\ (child # "none" => Len(spawned) = 1)

\* C21: a command-line entry point exits with status 0 exactly when its
\* operation reported success, and with a non-zero status when the operation
\* reported a failure or did not run to success.
C21_ExitZeroIffSuccess ==
    spc = "exited" => ((sexit = 0) <=> (sresult = "True"))

\* C22: for any full metadata set create_data_splits writes a training split of
\* exactly 70 rows and a validation split of exactly 10 rows, and the same
\* metadata always yields the same two splits.
C22_SeventyAndTenSameSplits ==
    sp_pc = "done" =>
        /\ Len(sp_train) = 70
        /\ Len(sp_val) = 10
        /\ sp_prev # <<>> => sp_prev = <<sp_train, sp_val>>

\* C23: a refresh cycle of monitor_training completes without raising for
\* every content of the process table and of the log files.
C23_RefreshNeverRaises ==
    mpc # "crashed"

\* The lines the launcher has added to the log during this launch: the log
\* without the lines an earlier run left.
AddedLines ==
    SubSeq(log, Cardinality({i \in DOMAIN log : log[i] = 0}) + 1, Len(log))

Nothing == [has |-> FALSE, val |-> <<>>]
CarriedBy(r, field) ==
    IF r.exc = "none" /\ field \in DOMAIN r.upd THEN [has |-> TRUE, val |-> r.upd[field]]
    ELSE Nothing
Carried(field, raw) ==
    LET line == Strip(raw)
    IN IF field = "epoch"
       THEN IF Contains(S_EPOCH, line) THEN CarriedBy(EpochBranch(line), field) ELSE Nothing
       ELSE IF field \in {"step", "total_steps"}
       THEN IF Contains(S_DD_GLOBAL_STEP, line) THEN CarriedBy(StepBranch(line), field)
            ELSE Nothing
       ELSE IF Contains(S_BAR, line) /\ Contains(S_COLON, line)
            THEN CarriedBy(MetricBranch(line), field)
            ELSE Nothing

\* The value of the last line that carries one, the placeholder if none does.
RECURSIVE LatestValue(_, _, _)
LatestValue(field, lines, sofar) ==
    IF lines = <<>> THEN sofar
    ELSE LET c == Carried(field, Head(lines))
         IN LatestValue(field, Tail(lines), IF c.has THEN c.val ELSE sofar)

\* C25: for each of epoch, step, total steps, loss, learning rate and step
\* time, parse_training_metrics returns the value carried by the last line of
\* the log text that has that field's shape, whatever else that line or
\* earlier lines contain, and the placeholder when no line has that shape.
C25_LatestValuePerField ==
    ppc = "done" =>
        \A field \in {"epoch", "step", "total_steps", "loss", "lr", "step_time"} :
            metrics[field] = LatestValue(field, Split(log_content, S_NL), NA)

\* The path of the log file a launcher writes: auto_start_training.py 35 and
\* 81, execute_full_training.py 127 and 208, working_training.py 115 and 153,
\* arm_max_quality_training.py 189.
LogPath(s) ==
    CASE s = "auto_start_training" ->
           <<"/", "s", "s", "d", "/", "t", "t", "s", "_", "p", "r", "o", "j", "e", "c", "t", "/", "f", "u", "l", "l", "_", "t", "r", "a", "i", "n", "i", "n", "g", "_", "o", "u", "t", "p", "u", "t", "/", "t", "r", "a", "i", "n", "i", "n", "g", ".", "l", "o", "g">>
      [] s = "execute_full_training" ->
           <<"/", "s", "s", "d", "/", "t", "t", "s", "_", "p", "r", "o", "j", "e", "c", "t", "/", "f", "u", "l", "l", "_", "t", "r", "a", "i", "n", "i", "n", "g", "_", "o", "u", "t", "p", "u", "t", "/", "t", "r", "a", "i", "n", ".", "l", "o", "g">>
      [] s = "working_training" ->
           <<"/", "s", "s", "d", "/", "t", "t", "s", "_", "p", "r", "o", "j", "e", "c", "t", "/", "t", "r", "a", "i", "n", "i", "n", "g", "_", "f", "i", "n", "a", "l", "/", "t", "r", "a", "i", "n", "i", "n", "g", ".", "l", "o", "g">>
      [] s = "arm_max_quality_training" ->
           <<"/", "s", "s", "d", "/", "t", "t", "s", "_", "p", "r", "o", "j", "e", "c", "t", "/", "a", "r", "m", "_", "m", "a", "x", "_", "q", "u", "a", "l", "i", "t", "y", "_", "o", "u", "t", "p", "u", "t", "/", "t", "r", "a", "i", "n", "i", "n", "g", ".", "l", "o", "g">>

\* The file system as the launcher's log makes it: the log file with one line
\* of text for every line it holds.
LauncherFiles ==
    IF script \in Piped /\ log # <<>>
    THEN LogPath(script) :> [mtime |-> 1,
                             content |-> Join([i \in DOMAIN log |-> <<"x">>], S_NL) \o S_NL]
    ELSE <<>>

\* C26: the log file a Training Launcher writes is one of the log files the
\* Training Monitor inspects: once the launcher has added a line to its log,
\* a refresh of the Monitor reads that file.
C26_LauncherLogIsInspected ==
    (script \in Piped /\ AddedLines # <<>>) =>
        /\ LatestLog(LauncherFiles, 1, <<>>, 0) = LogPath(script)
        /\ get_latest_log_output(LauncherFiles) # S_NO_LOG

C29_SavedNumberedConsecutively ==
    iv_driver \in Counting =>
        /\ Len(iv_reported) = iv_successes
        /\ \A i \in DOMAIN iv_reported :
              /\ iv_reported[i].n = i
              /\ iv_files[i] = iv_reported[i].input
        /\ iv_pc = "loop" => counter = iv_successes + 1

\* C29 witness: a failed synthesis and an empty input lie between two successes.
C29_Witness ==
    /\ iv_driver = "interactive_testing"
    /\ iv_inputs = 4
    /\ iv_attempts = 3
    /\ Len(iv_reported) = 2
    /\ iv_reported[1].input = 1
    /\ iv_reported[2].input = 4

\* C28: process_audio_files completes normally, without an uncaught
\* exception, for every content of the raw audio directory, a directory with
\* no .wav files and a batch in which every file fails included.
C28_CompletesNormally ==
    apc # "raised"

\* The lines of a text file whose lines all end with a newline.
LinesOf(content) ==
    LET pieces == Split(content, S_NL) IN SubSeq(pieces, 1, Len(pieces) - 1)

\* C30: every line fix_metadata writes has exactly three '|'-separated fields,
\* for every input line, also one whose text contains '|': the identifier
\* comes from before the first '|' of the input line and the normalized text
\* contains no '|'.
C30_ThreeFieldsPerLine ==
    (fix_runs > 0 /\ fix_seen.exists) =>
        /\ Len(LinesOf(ljspeech_csv.content)) = Len(rows)
        /\ \A i \in DOMAIN rows :
              LET fields == Split(LinesOf(ljspeech_csv.content)[i], S_PIPE)
              IN /\ Len(fields) = 3
                 /\ fields[1] = Replace(rows[i].filename, S_WAV, <<>>)
                 /\ ~Contains(S_PIPE, rows[i].filename)
                 /\ fields[3] = clean_and_normalize_text(rows[i].text)

\* C30 witness: the input line ' b|t |u', whose text contains '|', was converted.
C30_Witness ==
    /\ fix_runs > 0
    /\ fix_seen = File(<<" ", "b", "|", "t", " ", "|", "u", "\n">>)
    /\ ljspeech_csv = File(<<"b", "|", "t", " ", "u", "|", "t", " ", "u", "\n">>)

====
